---- MODULE Spec2Model ----
(***************************************************************************)
(* Model of the Maelstrom node runtime (maelstrom-node), the broadcast     *)
(* workload (broadcast-node) and the topology engine (topology.rs).        *)
(***************************************************************************)
EXTENDS Integers, Sequences, FiniteSets, Bags, TLC

(***************************************************************************)
(* Sequence helpers: the Vec operations the code uses.                     *)
(***************************************************************************)

\* Vec::contains
SeqContains(s, x) == \E i \in 1..Len(s) : s[i] = x

\* Iterator::position: index of the first occurrence (the caller knows it exists)
Position(s, x) == CHOOSE i \in 1..Len(s) : s[i] = x /\ \A j \in 1..(i - 1) : s[j] # x

\* the set of elements of a sequence
Range(s) == {s[i] : i \in 1..Len(s)}

\* insertion of x into an ascending sequence, after the elements <= x
SortedInsert(s, x) ==
    LET k == Cardinality({i \in 1..Len(s) : s[i] <= x})
    IN  SubSeq(s, 1, k) \o <<x>> \o SubSeq(s, k + 1, Len(s))

RECURSIVE sort(_)
\* slice::sort on NodeIds (ascending, duplicates kept)
sort(s) == IF s = <<>> THEN <<>> ELSE SortedInsert(sort(Tail(s)), Head(s))

(***************************************************************************)
(* Topology engine (topology.rs).  A topology map is a function from its   *)
(* keys (NodeIds) to the neighbour list (a sequence of NodeIds).           *)
(***************************************************************************)

\* From with the sort of the neighbour lists left out
FromUnsorted(topology) == topology

\* impl From<&HashMap<NodeId, Vec<NodeId>>> for Topology: every list is sorted
From(topology) == [k \in DOMAIN topology |-> sort(topology[k])]

\* Topology::get_neighbors: the list of the key, or the empty list
get_neighbors(t, node_id) == IF node_id \in DOMAIN t THEN t[node_id] ELSE <<>>

\* Topology::contains_cycle: every element of slice is in container
contains_cycle(container, slice) ==
    \A i \in 1..Len(slice) : SeqContains(container, slice[i])

RECURSIVE VisitNeighbors(_, _, _, _, _)
\* the for loop over the neighbours of the popped node: a neighbour on the
\* path records the path's suffix as a cycle, an unvisited one is pushed
VisitNeighbors(neighbors, path, visited, stack, cycles) ==
    IF neighbors = <<>> THEN <<stack, cycles>>
    ELSE LET neighbor == Head(neighbors)
         IN  IF SeqContains(path, neighbor)
             THEN VisitNeighbors(Tail(neighbors), path, visited, stack,
                      Append(cycles, SubSeq(path, Position(path, neighbor), Len(path))))
             ELSE IF neighbor \notin visited
             THEN VisitNeighbors(Tail(neighbors), path, visited,
                      Append(stack, <<neighbor, Append(path, neighbor)>>), cycles)
             ELSE VisitNeighbors(Tail(neighbors), path, visited, stack, cycles)

RECURSIVE TraverseFifo(_, _, _, _)
\* the traversal taking the oldest entry of the stack instead of the newest
TraverseFifo(t, stack, visited, cycles) ==
    IF stack = <<>> THEN cycles
    ELSE LET top  == stack[1]
             vis  == visited \cup {top[1]}
             r    == VisitNeighbors(get_neighbors(t, top[1]), top[2], vis,
                                    Tail(stack), cycles)
         IN  TraverseFifo(t, r[1], vis, r[2])

RECURSIVE Traverse(_, _, _, _)
\* the while loop on the stack: pop, mark visited, visit the neighbours
Traverse(t, stack, visited, cycles) ==
    IF stack = <<>> THEN cycles
    ELSE LET top  == stack[Len(stack)]
             vis  == visited \cup {top[1]}
             r    == VisitNeighbors(get_neighbors(t, top[1]), top[2], vis,
                                    SubSeq(stack, 1, Len(stack) - 1), cycles)
         IN  Traverse(t, r[1], vis, r[2])

\* FindCycles with the sort of all_nodes left out: the start is the first key met
FindCyclesUnsorted(t, keys) ==
    IF keys = <<>> THEN <<>>
    ELSE Traverse(t, << <<keys[1], <<keys[1]>> >> >>, {}, <<>>)

\* the cycles recorded by the traversal that starts at the smallest key;
\* keys is the order in which the map's keys are iterated
FindCycles(t, keys) ==
    LET all_nodes == sort(keys)
    IN  IF all_nodes = <<>> THEN <<>>
        ELSE Traverse(t, << <<all_nodes[1], <<all_nodes[1]>> >> >>, {}, <<>>)

\* a retain that removes nothing
RetainAll(cycles, cycle) == cycles

\* Vec::retain(|c| c != cycle)
Retain(cycles, cycle) == SelectSeq(cycles, LAMBDA c : c # cycle)

RECURSIVE RemoveContained(_, _, _)
\* the pruning loop over a clone of the recorded cycles
RemoveContained(snapshot, i, cycles) ==
    IF i > Len(snapshot) THEN cycles
    ELSE IF \E j \in 1..Len(cycles) :
                cycles[j] # snapshot[i] /\ contains_cycle(cycles[j], snapshot[i])
         THEN RemoveContained(snapshot, i + 1, Retain(cycles, snapshot[i]))
         ELSE RemoveContained(snapshot, i + 1, cycles)

\* the cycles that survive the pruning
PrunedCycles(t, keys) ==
    LET cycles == FindCycles(t, keys) IN RemoveContained(cycles, 1, cycles)

\* the hop against the direction of the cycle: the vertex before node_id
CycleHopBefore(c, node_id) ==
    IF ~SeqContains(c, node_id) \/ Len(c) = 1 THEN <<>>
    ELSE LET position == Position(c, node_id)
         IN  IF position = 1 THEN <<c[Len(c)]>> ELSE <<c[position - 1]>>

\* CycleHop without the wrap from the last position to the first
CycleHopNoWrap(c, node_id) ==
    IF ~SeqContains(c, node_id) THEN <<>>
    ELSE LET position == Position(c, node_id)
         IN  IF position = Len(c) THEN <<>> ELSE <<c[position + 1]>>

\* the closure of flat_map: the hop the cycle c gives to node_id
CycleHop(c, node_id) ==
    IF ~SeqContains(c, node_id) THEN <<>>
    ELSE LET position == Position(c, node_id)
         IN  IF Len(c) = 1 THEN <<>>
             ELSE IF Len(c) = 2
                  THEN (IF position = 1 THEN <<c[2]>> ELSE <<c[1]>>)
                  ELSE IF position = 1 THEN <<c[2]>>
                       ELSE IF position = Len(c) THEN <<c[1]>>
                       ELSE <<c[position + 1]>>

RECURSIVE FlatMapHops(_, _)
FlatMapHops(cycles, node_id) ==
    IF cycles = <<>> THEN <<>>
    ELSE CycleHop(Head(cycles), node_id) \o FlatMapHops(Tail(cycles), node_id)

\* the fold without its test: every id is pushed
FoldDedupPushAll(acc, ids) == acc \o ids

RECURSIVE FoldDedup(_, _)
\* the fold: keep the first occurrence of every id
FoldDedup(acc, ids) ==
    IF ids = <<>> THEN acc
    ELSE FoldDedup(IF SeqContains(acc, Head(ids)) THEN acc ELSE Append(acc, Head(ids)),
                   Tail(ids))

\* Topology::next: the nodes node_id broadcasts to
next(t, keys, node_id) ==
    IF keys = <<>> THEN <<>>
    ELSE LET cycles == PrunedCycles(t, keys)
         IN  IF cycles = <<>> THEN get_neighbors(t, node_id)
             ELSE FoldDedup(<<>>, FlatMapHops(cycles, node_id))

(***************************************************************************)
(* The topology engine as a pure function: two runs of                     *)
(* Topology::from(..).next(..), each on its own copy of a topology map     *)
(* (the harness sends the overlay to every node, and neither the order of  *)
(* a neighbour list nor the iteration order of the map is fixed).          *)
(***************************************************************************)

\* largest NodeId of the general (possibly asymmetric) topology maps
MaxNode == 3
\* longest neighbour list of the general topology maps
MaxDeg == 2
\* largest NodeId of the symmetric overlays
MaxOverlay == 4

Runs == {1, 2}
AllIds == 1..(IF MaxNode > MaxOverlay THEN MaxNode ELSE MaxOverlay)

SeqsUpTo(S, k) == UNION {[1..m -> S] : m \in 0..k}

\* every arrangement of a set as a sequence without repetition
Arrangements(S) == {s \in [1..Cardinality(S) -> S] : Range(s) = S}

\* the orders in which a HashMap may iterate over the keys S: the rotations of
\* the ascending and of the descending order (every order for up to 3 keys)
KeyOrders(S) ==
    LET n   == Cardinality(S)
        asc == sort(CHOOSE s \in Arrangements(S) : TRUE)
    IN  IF S = {} THEN {<<>>} ELSE
        {[i \in 1..n |-> asc[((i + k) % n) + 1]] : k \in 0..(n - 1)}
          \cup {[i \in 1..n |-> asc[n - ((i + k) % n)]] : k \in 0..(n - 1)}

\* the general maps: any keys, any lists (unsorted, with repetitions)
RawMaps == UNION {[K -> SeqsUpTo(1..MaxNode, MaxDeg)] : K \in SUBSET (1..MaxNode)}

\* the lists that name the same neighbour set as list
SameSetLists(list) ==
    {s \in SeqsUpTo(Range(list), IF Len(list) > MaxDeg THEN Len(list) ELSE MaxDeg) :
        Range(s) = Range(list)}

RECURSIVE SameSetMapsOver(_, _)
SameSetMapsOver(m, K) ==
    IF K = {} THEN {<<>>}
    ELSE LET k == CHOOSE k \in K : TRUE
         IN  {(k :> l) @@ f : l \in SameSetLists(m[k]), f \in SameSetMapsOver(m, K \ {k})}

\* the maps with the keys of m and, per key, the neighbour set of m
SameSetMaps(m) == SameSetMapsOver(m, DOMAIN m)

\* the undirected edges a symmetric overlay on 1..k may have
Pairs(k) == {e \in SUBSET (1..k) : Cardinality(e) = 2}

\* the overlay on 1..k with edge set E; desc gives the lists in descending order
OverlayMap(k, E, desc) ==
    [n \in 1..k |->
        LET asc == sort(CHOOSE s \in Arrangements({p \in 1..k : {n, p} \in E}) : TRUE)
        IN  IF desc THEN [i \in 1..Len(asc) |-> asc[Len(asc) + 1 - i]] ELSE asc]

RECURSIVE ReachableVia(_, _)
\* the nodes reached from the set S along the lists of m
ReachableVia(m, S) ==
    LET S2 == S \cup UNION {Range(m[a]) : a \in S \cap DOMAIN m}
    IN  IF S2 = S THEN S ELSE ReachableVia(m, S2)

IsConnectedOverlay(m) == \A a \in DOMAIN m : ReachableVia(m, {a}) = DOMAIN m

VARIABLES
    topology,   \* topology[r]: the map of the TopologyRequest of run r
    next_of     \* next_of[r][n]: what next(n) returned in run r (<<>> before the run)

topoVars == <<topology, next_of>>

InitTopoIdle == topology = <<>> /\ next_of = <<>>

\* the state of the handlers of the other workloads
VARIABLES
    ids_counter,    \* [n]: UniqueIdsHandler.ids_counter
    delta,          \* [n]: GCounterHandler.delta
    counter,        \* [n]: GCounterHandler.counter
    store,          \* the map of the seq-kv service
    logs,           \* [n]: KafkaHandler.logs
    logs_writer,    \* [n]: the tasks holding the write lock of logs
    id,             \* [n]: Node.id, <<>> as long as there is no Node
    main,           \* [n]: where the main task of the process is
    stdin,          \* [n]: the input stream of the process, open or closed
    reader,         \* [n]: the task of read_from_stdin, running or ended
    skipped         \* [n]: the messages Node::initialize skipped

uidVars == <<ids_counter>>
gcVars == <<delta, counter, store>>
kafkaVars == <<logs, logs_writer>>
mainVars == <<id, main, stdin, reader, skipped>>
appVars == <<uidVars, gcVars, kafkaVars, mainVars>>

\* the state of a workload that does not run
InitUniqueIdsIdle == ids_counter = <<>>
InitGCounterIdle == delta = <<>> /\ counter = <<>> /\ store = <<>>
InitKafkaIdle == logs = <<>> /\ logs_writer = <<>>
InitMainIdle ==
    id = <<>> /\ main = <<>> /\ stdin = <<>> /\ reader = <<>> /\ skipped = <<>>
InitAppIdle == InitUniqueIdsIdle /\ InitGCounterIdle /\ InitKafkaIdle /\ InitMainIdle

\* SpecTopo: a general map, and a second one with the same keys and neighbour sets
InitTopoMaps ==
    /\ \E m \in RawMaps : \E m2 \in SameSetMaps(m) : topology = <<m, m2>>
    /\ next_of = [r \in Runs |-> <<>>]

\* the 2x3 grid of tests::three_neighbors
three_neighbors == <<(<<2, 4>>), (<<1, 3, 5>>), (<<2, 6>>), (<<1, 5>>), (<<2, 4, 6>>), (<<3, 5>>)>>

\* the list in the opposite order
Reversed(list) == [i \in 1..Len(list) |-> list[Len(list) + 1 - i]]

\* SpecOverlay: a symmetric overlay on 1..k, its lists ascending and descending,
\* or the grid of the tests
InitOverlayMaps ==
    /\ \/ \E k \in 1..MaxOverlay : \E E \in SUBSET Pairs(k) :
              topology = <<OverlayMap(k, E, FALSE), OverlayMap(k, E, TRUE)>>
       \/ topology = <<three_neighbors,
                       [n \in DOMAIN three_neighbors |-> Reversed(three_neighbors[n])]>>
    /\ next_of = [r \in Runs |-> <<>>]

\* run r: Topology::from(&topology).next(n) for every node id n; keys is the
\* order in which the HashMap happens to iterate
TopologyNext(r) ==
    /\ next_of[r] = <<>>
    /\ \E keys \in KeyOrders(DOMAIN topology[r]) :
           next_of' = [next_of EXCEPT ![r] =
                          [n \in AllIds \cup DOMAIN topology[r] |->
                               next(From(topology[r]), keys, n)]]
    /\ UNCHANGED topology


(***************************************************************************)
(* Envelope and payload codec (protocol.rs).  A message is a record        *)
(* [src, dest, body]; a body is a record holding exactly the keys of the   *)
(* JSON object ("type", "msg_id", "in_reply_to" and the payload's fields). *)
(***************************************************************************)

\* ids::PeerId::Node / ids::PeerId::Client
NodePeer(i) == <<"n", i>>
ClientPeer(i) == <<"c", i>>
IsNodePeer(p) == p[1] = "n"
IsClientPeer(p) == p[1] = "c"

\* Result of a fallible call
Ok(v) == [ok |-> TRUE, value |-> v]
Err(e) == [ok |-> FALSE, error |-> e]

\* JSON values that are no object and no string: a number, null
JsonNumber(i) == [json |-> "number", value |-> i]
JsonNull == [json |-> "null"]

\* a type that is no JSON string is written as its JSON text: the number 5, null
NonStringTypes == {"5", "null"}

\* Value::as_str on the type of a body: the value is a JSON string
IsJsonString(v) == v \notin NonStringTypes

\* serde_json::Value::Object(..): the value is a JSON object
IsJsonObject(v) == "json" \notin DOMAIN v

\* #[serde(flatten)]: the fields of the payload are written next to the
\* fields of the struct that holds it
Flatten(head, payload) ==
    [k \in DOMAIN head \cup DOMAIN payload |->
        IF k \in DOMAIN head THEN head[k] ELSE payload[k]]

\* Message::request_to: the body is Request {msg_id, payload} flattened
request_to(src, dest, msg_id, payload) ==
    [src |-> NodePeer(src), dest |-> dest, body |-> Flatten([msg_id |-> msg_id], payload)]

\* a reply_for that copies the request's type without the "_ok" suffix
reply_forSameType(message, payload) ==
    IF "msg_id" \notin DOMAIN message.body
    THEN Err("message is not a request")
    ELSE IF "type" \notin DOMAIN message.body
    THEN Err("message.type is undefined")
    ELSE Ok([src  |-> message.dest,
             dest |-> message.src,
             body |-> Flatten([in_reply_to |-> message.body.msg_id,
                              type |-> message.body.type],
                             payload)])

\* a reply_for that keeps src and dest of the request
reply_forNoSwap(message, payload) ==
    IF "msg_id" \notin DOMAIN message.body
    THEN Err("message is not a request")
    ELSE IF "type" \notin DOMAIN message.body
    THEN Err("message.type is undefined")
    ELSE Ok([src  |-> message.src,
             dest |-> message.dest,
             body |-> Flatten([in_reply_to |-> message.body.msg_id,
                              type |-> (message.body.type \o "_ok")],
                             payload)])

\* a reply_for that takes whatever the payload serializes to
reply_forAnyPayload(message, payload) ==
    IF "msg_id" \notin DOMAIN message.body
    THEN Err("message is not a request")
    ELSE IF "type" \notin DOMAIN message.body
    THEN Err("message.type is undefined")
    ELSE IF ~ IsJsonString(message.body.type)
    THEN Err("message.type is not a string")
    ELSE Ok([src  |-> message.dest,
             dest |-> message.src,
             body |-> Flatten([in_reply_to |-> message.body.msg_id,
                              type |-> (message.body.type \o "_ok")],
                             payload)])

\* Message::reply_for: in_reply_to and type are inserted into the payload object
reply_for(message, payload) ==
    IF "msg_id" \notin DOMAIN message.body
    THEN Err("message is not a request")
    ELSE IF "type" \notin DOMAIN message.body
    THEN Err("message.type is undefined")
    ELSE IF ~ IsJsonString(message.body.type)
    THEN Err("message.type is not a string")
    ELSE IF ~ IsJsonObject(payload)
    THEN Err("payload is not an object")
    ELSE Ok([src  |-> message.dest,
             dest |-> message.src,
             body |-> Flatten([in_reply_to |-> message.body.msg_id,
                              type |-> (message.body.type \o "_ok")],
                             payload)])

\* message.clone_into::<protocol::Response>() succeeds
IsResponse(message) == "in_reply_to" \in DOMAIN message.body

\* message.clone_into::<protocol::Request<P>>() succeeds for a payload struct
\* P with the given fields: msg_id and the fields are present.  The serde tag
\* of a struct is written when it is serialized; it is not looked at when the
\* struct is deserialized, and keys the struct does not name are skipped.
IsRequest(message, fields) ==
    /\ "msg_id" \in DOMAIN message.body
    /\ fields \subseteq DOMAIN message.body

\* the branch of BroadcastHandler::handle a message takes: the payload types
\* are tried in the order TopologyRequest, BroadcastRequest, ReadRequest
IsTopologyRequest(message) == IsRequest(message, {"topology"})
IsBroadcastRequest(message) ==
    ~ IsTopologyRequest(message) /\ IsRequest(message, {"message"})
IsReadRequest(message) ==
    /\ ~ IsTopologyRequest(message)
    /\ ~ IsRequest(message, {"message"})
    /\ IsRequest(message, {})

\* response.into::<ErrorResponse>() succeeds: code and text are present and
\* code decodes as ErrorCode, an untagged enum of unit variants, which only
\* null does
IsErrorResponse(body) ==
    /\ {"code", "text"} \subseteq DOMAIN body
    /\ body.code.json = "null"

\* response.into::<BroadcastOkResponse>() succeeds: the struct has no field,
\* so every JSON object decodes
IsBroadcastOk(body) == TRUE

\* the payloads the broadcast workload serializes
BroadcastRequest(m) == [type |-> "broadcast", message |-> m]
EmptyPayload == <<>>

(***************************************************************************)
(* The node runtime (lib.rs) and the broadcast handler (broadcast-node).   *)
(***************************************************************************)

\* the nodes of the cluster and, among them, those that run the program in
\* the single-node specification (the others are peers of the environment)
Nodes == {1, 2, 3}
Self == 1
\* the values clients broadcast
Values == {7, 9}
\* the client of the harness
Client == ClientPeer(1)

\* capacity of the channels between reader, dispatch loop, handlers and writer
ChannelCapacity == 100
\* first timeout window of a fan-out task, in milliseconds
InitialTimeoutMs == 100

\* workload requests the client sends to the node (single-node specification)
MaxOps == 1
\* requests the peers of the environment send to the node
MaxPeerOps == 1
\* largest msg_id of those requests
MaxPeerMsgId == 1
\* timeouts of fan-out attempts
MaxTimeouts == 1
\* answers of the environment that are no broadcast_ok to a pending request
MaxFaults == 1
\* workload requests the client sends to the cluster
MaxBroadcasts == 1

VARIABLES
    latest_message_id,  \* [n]: Node.latest_message_id
    waiting_for,        \* [n]: Node.waiting_for, msg_id -> the task owning the slot
    responses,          \* [n]: the channel responses_tx -> write_to_stdout
    requests,           \* [n]: the channel read_from_stdin -> listen
    messages,           \* [n]: BroadcastHandler.messages (the seen set)
    broadcast_to,       \* [n]: BroadcastHandler.broadcast_to
    handlers,           \* [n]: the spawned handler tasks, each at its await
    fanouts,            \* [n]: the spawned fan-out tasks, each at its await
    network,            \* messages written to stdout and not yet read from a stdin
    client_inbox,       \* messages the harness delivered to the client
    client_msg_id,      \* next msg_id of the client
    budget,             \* what the environment may still do (ops, timeouts, ...)
    received,           \* [n]: the requests the dispatch loop handed to a handler
    emitted,            \* [n]: how often each reply was put on the outbound queue
    returned,           \* [n]: the sends that returned, with what they returned
    ignored             \* [n]: the responses the dispatch loop handed to no caller

nodeVars == <<latest_message_id, waiting_for, responses, requests, messages,
              broadcast_to, handlers, fanouts, received, emitted, returned, ignored>>
envVars == <<network, client_inbox, client_msg_id, budget>>
vars == <<nodeVars, envVars, topoVars, appVars>>

\* HashMap::remove
MapRemove(f, k) == [j \in (DOMAIN f) \ {k} |-> f[j]]
\* HashMap::insert
MapInsert(f, k, v) == (k :> v) @@ f

\* mpsc::Sender::send completes when the channel has room, else the sender waits
HasRoom(channel) == Len(channel) < ChannelCapacity

\* a window that is rounded to the nearest integer, halves upwards
BackoffRoundUp(timeout_ms) == (timeout_ms * 3 + 1) \div 2

\* (timeout_ms as f64 * 1.5) as u64
Backoff(timeout_ms) == (timeout_ms * 3) \div 2

\* a handler task spawned by listen for the request message
HandlerTask(message) == [msg |-> message, pc |-> "start", payload |-> EmptyPayload]

\* the fan-out task a handler spawns for the i-th recipient node_id
FanoutTask(message, i, node_id) ==
    [req |-> <<message.src, message.body.msg_id>>, idx |-> i, node_id |-> node_id,
     message |-> message.body.message, timeout_ms |-> InitialTimeoutMs,
     pc |-> "send", msg_id |-> -1, rx |-> <<>>]

TaskId(f) == <<f.req, f.idx>>

\* the oneshot channel created by the wait_for_reply call of task f
Slot(f) == <<TaskId(f), f.msg_id>>

\* a recipient selection that keeps the immediate sender and drops the others
RecipientsOnlySender(list, source) ==
    IF IsNodePeer(source) THEN SelectSeq(list, LAMBDA node_id : node_id = source[2])
    ELSE list

\* a recipient selection that does not remove the immediate sender
RecipientsAll(list, source) == list

\* the recipients with the immediate sender removed
\* (filter(|node_id| !src_id.eq(node_id)) when the source is a node)
Recipients(list, source) ==
    IF IsNodePeer(source) THEN SelectSeq(list, LAMBDA node_id : node_id # source[2])
    ELSE list

InitNodes ==
    /\ latest_message_id = [n \in Nodes |-> 0]
    /\ waiting_for = [n \in Nodes |-> <<>>]
    /\ responses = [n \in Nodes |-> <<>>]
    /\ requests = [n \in Nodes |-> <<>>]
    /\ messages = [n \in Nodes |-> {}]
    /\ broadcast_to = [n \in Nodes |-> <<>>]
    /\ handlers = [n \in Nodes |-> {}]
    /\ fanouts = [n \in Nodes |-> {}]
    /\ received = [n \in Nodes |-> {}]
    /\ emitted = [n \in Nodes |-> EmptyBag]
    /\ returned = [n \in Nodes |-> {}]
    /\ ignored = [n \in Nodes |-> {}]

\* read_from_stdin: a line addressed to node n is parsed and pushed to the channel
ReadFromStdin(n) ==
    /\ HasRoom(requests[n])
    /\ \E message \in network :
           /\ message.dest = NodePeer(n)
           /\ network' = network \ {message}
           /\ requests' = [requests EXCEPT ![n] = Append(@, message)]
    /\ UNCHANGED <<latest_message_id, waiting_for, responses, messages, broadcast_to,
                   handlers, fanouts, received, emitted, returned, ignored,
                   client_inbox, client_msg_id, budget, topoVars, appVars>>

\* write_to_stdout: the next message of the channel is written as one line; the
\* harness holds it for a node or hands it to the client
WriteToStdout(n) ==
    /\ responses[n] # <<>>
    /\ LET response == Head(responses[n])
       IN  /\ responses' = [responses EXCEPT ![n] = Tail(@)]
           /\ IF IsClientPeer(response.dest)
              THEN client_inbox' = client_inbox \cup {response} /\ UNCHANGED network
              ELSE network' = network \cup {response} /\ UNCHANGED client_inbox
    /\ UNCHANGED <<latest_message_id, waiting_for, requests, messages, broadcast_to,
                   handlers, fanouts, received, emitted, returned, ignored,
                   client_msg_id, budget, topoVars, appVars>>

\* a slot that outlives its attempt: the task receives on it in later attempts
SlotReceiversOfTask(n, slot) ==
    {f \in fanouts[n] : f.pc = "await" /\ f.rx = <<>> /\ TaskId(f) = slot[1]}

\* the task the slot belongs to, if it still awaits on that slot
SlotReceivers(n, slot) ==
    {f \in fanouts[n] : f.pc = "await" /\ f.rx = <<>> /\ Slot(f) = slot}

\* a dispatch loop that runs a handler to its end before it receives again
RecvAfterHandlers(n) ==
    /\ requests[n] # <<>>
    /\ handlers[n] = {}
    /\ fanouts[n] = {}

\* requests_tx.recv().await returns a message: the channel is not empty
RecvReady(n) == requests[n] # <<>>

\* Node::listen, one iteration: a response is handed to the slot registered for
\* its in_reply_to (or dropped), anything else gets a new handler task
Listen(n) ==
    /\ RecvReady(n)
    /\ LET message == Head(requests[n])
       IN  /\ requests' = [requests EXCEPT ![n] = Tail(@)]
           /\ IF IsResponse(message)
              THEN LET k == message.body.in_reply_to
                   IN  /\ IF k \in DOMAIN waiting_for[n]
                          THEN /\ waiting_for' = [waiting_for EXCEPT ![n] = MapRemove(@, k)]
                               /\ fanouts' = [fanouts EXCEPT ![n] =
                                      {IF f \in SlotReceivers(n, waiting_for[n][k])
                                       THEN [f EXCEPT !.rx = <<message.body>>]
                                       ELSE f : f \in @}]
                          ELSE UNCHANGED <<waiting_for, fanouts>>
                       /\ ignored' = [ignored EXCEPT ![n] =
                              IF k \in DOMAIN waiting_for[n]
                                 /\ SlotReceivers(n, waiting_for[n][k]) # {}
                              THEN @ ELSE @ \cup {message}]
                       /\ UNCHANGED <<handlers, received>>
              ELSE /\ handlers' = [handlers EXCEPT ![n] = @ \cup {HandlerTask(message)}]
                   /\ received' = [received EXCEPT ![n] = @ \cup {message}]
                   /\ UNCHANGED <<waiting_for, fanouts, ignored>>
    /\ UNCHANGED <<latest_message_id, responses, messages, broadcast_to,
                   emitted, returned, envVars, topoVars, appVars>>

\* an insert that leaves the set as it was
RememberNothing(seen, m) == seen

\* an insert that forgets what the set held
RememberOnly(seen, m) == {m}

\* HashSet::insert under the write lock
Remember(seen, m) == seen \cup {m}

\* Node::reply: the reply is built by the codec and put on the outbound channel
Reply(n, request, payload) ==
    LET response == reply_for(request, payload)
    IN  /\ response.ok
        /\ HasRoom(responses[n])
        /\ responses' = [responses EXCEPT ![n] = Append(@, response.value)]
        /\ emitted' = [emitted EXCEPT ![n] = @ (+) SetToBag({response.value})]

\* an assignment that keeps the list it finds and appends the new one
WriteBroadcastToExtend(list, new_list) == list \o new_list

\* *self.broadcast_to.write().await = ..: the list is overwritten
WriteBroadcastTo(list, new_list) == new_list

\* BroadcastHandler::handle from its start: the type of the request decides.
\* topology: broadcast_to is replaced and topology_ok is sent.  broadcast: the
\* seen set is consulted under the read lock; a seen value is acknowledged, a
\* new one takes the task to the write lock.  read: the seen set is sent.
HandleStart(n) ==
    \E h \in handlers[n] :
        /\ h.pc = "start"
        /\ IF IsTopologyRequest(h.msg)
           THEN /\ \E keys \in KeyOrders(DOMAIN h.msg.body.topology) :
                       broadcast_to' = [broadcast_to EXCEPT ![n] =
                           WriteBroadcastTo(@, next(From(h.msg.body.topology), keys, n))]
                /\ Reply(n, h.msg, EmptyPayload)
                /\ handlers' = [handlers EXCEPT ![n] = @ \ {h}]
           ELSE IF IsBroadcastRequest(h.msg)
           THEN IF h.msg.body.message \in messages[n]
                THEN /\ Reply(n, h.msg, EmptyPayload)
                     /\ handlers' = [handlers EXCEPT ![n] = @ \ {h}]
                     /\ UNCHANGED broadcast_to
                ELSE /\ handlers' = [handlers EXCEPT ![n] =
                            (@ \ {h}) \cup {[h EXCEPT !.pc = "insert"]}]
                     /\ UNCHANGED <<broadcast_to, responses, emitted>>
           ELSE IF IsReadRequest(h.msg)
           THEN /\ Reply(n, h.msg, [messages |-> messages[n]])
                /\ handlers' = [handlers EXCEPT ![n] = @ \ {h}]
                /\ UNCHANGED broadcast_to
           ELSE /\ handlers' = [handlers EXCEPT ![n] = @ \ {h}]
                /\ UNCHANGED <<broadcast_to, responses, emitted>>
        /\ UNCHANGED <<latest_message_id, waiting_for, requests, messages,
                       fanouts, received, returned, ignored, envVars, topoVars, appVars>>

\* a handler that replies only after its fan-out tasks have ended
HandleInsertNoReply(n) ==
    \E h \in handlers[n] :
        /\ h.pc = "insert"
        /\ messages' = [messages EXCEPT ![n] = Remember(@, h.msg.body.message)]
        /\ LET recipients == Recipients(broadcast_to[n], h.msg.src)
           IN  fanouts' = [fanouts EXCEPT ![n] =
                   @ \cup {FanoutTask(h.msg, i, recipients[i]) : i \in 1..Len(recipients)}]
        /\ handlers' = [handlers EXCEPT ![n] = @ \ {h}]
        /\ UNCHANGED <<latest_message_id, waiting_for, requests, broadcast_to, responses,
                       emitted, received, returned, ignored, envVars, topoVars, appVars>>

\* BroadcastHandler::handle for a value not found in the seen set: the value is
\* inserted under the write lock, broadcast_ok is sent, and one task per
\* recipient read from broadcast_to is spawned (join_all only waits for them)
HandleInsert(n) ==
    \E h \in handlers[n] :
        /\ h.pc = "insert"
        /\ messages' = [messages EXCEPT ![n] = Remember(@, h.msg.body.message)]
        /\ Reply(n, h.msg, EmptyPayload)
        /\ LET recipients == Recipients(broadcast_to[n], h.msg.src)
           IN  fanouts' = [fanouts EXCEPT ![n] =
                   @ \cup {FanoutTask(h.msg, i, recipients[i]) : i \in 1..Len(recipients)}]
        /\ handlers' = [handlers EXCEPT ![n] = @ \ {h}]
        /\ UNCHANGED <<latest_message_id, waiting_for, requests, broadcast_to,
                       received, returned, ignored, envVars, topoVars, appVars>>

\* replace the task f of node n by g
UpdateTask(n, f, g) == [fanouts EXCEPT ![n] = (@ \ {f}) \cup {g}]

\* a send that reads latest_message_id and does not add to it
SendRequestNoFetchAdd(n) ==
    \E f \in fanouts[n] :
        /\ f.pc = "send"
        /\ HasRoom(responses[n])
        /\ responses' = [responses EXCEPT ![n] =
               Append(@, request_to(n, NodePeer(f.node_id), latest_message_id[n],
                                    BroadcastRequest(f.message)))]
        /\ fanouts' = UpdateTask(n, f, [f EXCEPT !.pc = "register",
                                                !.msg_id = latest_message_id[n]])
        /\ UNCHANGED <<latest_message_id, waiting_for, requests, messages, broadcast_to,
                       handlers, received, emitted, returned, ignored, envVars, topoVars, appVars>>

\* Node::send up to wait_for_reply: latest_message_id.fetch_add(1), then the
\* request is built and put on the outbound channel
SendRequest(n) ==
    \E f \in fanouts[n] :
        /\ f.pc = "send"
        /\ HasRoom(responses[n])
        /\ latest_message_id' = [latest_message_id EXCEPT ![n] = @ + 1]
        /\ responses' = [responses EXCEPT ![n] =
               Append(@, request_to(n, NodePeer(f.node_id), latest_message_id[n],
                                    BroadcastRequest(f.message)))]
        /\ fanouts' = UpdateTask(n, f, [f EXCEPT !.pc = "register",
                                                !.msg_id = latest_message_id[n]])
        /\ UNCHANGED <<waiting_for, requests, messages, broadcast_to,
                       handlers, received, emitted, returned, ignored, envVars, topoVars, appVars>>

\* Node::wait_for_reply, first step: the slot is created and inserted
WaitRegister(n) ==
    \E f \in fanouts[n] :
        /\ f.pc = "register"
        /\ waiting_for' = [waiting_for EXCEPT ![n] = MapInsert(@, f.msg_id, Slot(f))]
        /\ fanouts' = UpdateTask(n, f, [f EXCEPT !.pc = "await"])
        /\ UNCHANGED <<latest_message_id, responses, requests, messages, broadcast_to,
                       handlers, received, emitted, returned, ignored, envVars, topoVars, appVars>>

\* what send returns for the response body: the error, the decoded payload or
\* a decode error
SendResult(body) ==
    IF IsErrorResponse(body) THEN Err("Response")
    ELSE IF IsBroadcastOk(body) THEN Ok(body)
    ELSE Err("Json")

\* Node::wait_for_reply after rx.await and the rest of Node::send: the slot is
\* removed and the response is classified; the fan-out loop ends on Ok and
\* otherwise widens the timeout and sends again
SendReturn(n) ==
    \E f \in fanouts[n] :
        /\ f.pc = "await"
        /\ f.rx # <<>>
        /\ waiting_for' = [waiting_for EXCEPT ![n] = MapRemove(@, f.msg_id)]
        /\ returned' = [returned EXCEPT ![n] = @ \cup
               {[task |-> TaskId(f), msg_id |-> f.msg_id,
                 in_reply_to |-> f.rx[1].in_reply_to, ok |-> SendResult(f.rx[1]).ok]}]
        /\ fanouts' = [fanouts EXCEPT ![n] =
               IF SendResult(f.rx[1]).ok THEN @ \ {f}
               ELSE (@ \ {f}) \cup {[f EXCEPT !.pc = "send", !.rx = <<>>,
                                             !.timeout_ms = Backoff(f.timeout_ms)]}]
        /\ UNCHANGED <<latest_message_id, responses, requests, messages, broadcast_to,
                       handlers, received, emitted, ignored, envVars, topoVars, appVars>>

\* time::timeout fires while the send awaits its slot: the send future is
\* dropped (its slot stays registered), the window widens, the loop sends again
Timeout(n) ==
    \E f \in fanouts[n] :
        /\ f.pc = "await"
        /\ f.rx = <<>>
        /\ budget.timeouts > 0
        /\ budget' = [budget EXCEPT !.timeouts = @ - 1]
        /\ fanouts' = UpdateTask(n, f, [f EXCEPT !.pc = "send",
                                                !.timeout_ms = Backoff(f.timeout_ms)])
        /\ UNCHANGED <<latest_message_id, waiting_for, responses, requests, messages,
                       broadcast_to, handlers, received, emitted, returned, ignored,
                       network, client_inbox, client_msg_id, topoVars, appVars>>

\* one step of the program on node n
NodeStep(n) ==
    \/ ReadFromStdin(n)
    \/ WriteToStdout(n)
    \/ Listen(n)
    \/ HandleStart(n)
    \/ HandleInsert(n)
    \/ SendRequest(n)
    \/ WaitRegister(n)
    \/ SendReturn(n)

(***************************************************************************)
(* The environment: the harness with its client, and, in the single-node   *)
(* specification, the other nodes of the cluster.                          *)
(***************************************************************************)

\* the overlays the harness may install: the connected ones on the nodes
ClusterOverlays ==
    {E \in SUBSET Pairs(Cardinality(Nodes)) :
        IsConnectedOverlay(OverlayMap(Cardinality(Nodes), E, FALSE))}

\* the overlay of the single-node specification: the line Self - 2 - 3
NodeOverlays == {{{Self, 2}, {2, 3}}}

TopologyRequestTo(n, msg_id, E) ==
    [src |-> Client, dest |-> NodePeer(n),
     body |-> [type |-> "topology", msg_id |-> msg_id,
               topology |-> OverlayMap(Cardinality(Nodes), E, TRUE)]]

\* the client has the reply to every request it sent
ClientIdle ==
    \A k \in 0..(client_msg_id - 1) :
        \E r \in client_inbox : r.body.in_reply_to = k

\* node n has answered the topology request
TopologyAcked(n) ==
    \E r \in client_inbox : r.src = NodePeer(n) /\ r.body.type = "topology_ok"

\* the client, which has one request outstanding at a time, sends a workload
\* request to node n
ClientRequest(n, payload) ==
    /\ budget.ops > 0
    /\ ClientIdle
    /\ budget' = [budget EXCEPT !.ops = @ - 1]
    /\ client_msg_id' = client_msg_id + 1
    /\ network' = network \cup
           {[src |-> Client, dest |-> NodePeer(n),
             body |-> Flatten([msg_id |-> client_msg_id], payload)]}
    /\ UNCHANGED <<nodeVars, client_inbox, topoVars, appVars>>

ClientBroadcast(n) == \E m \in Values : ClientRequest(n, BroadcastRequest(m))

ClientRead(n) == ClientRequest(n, [type |-> "read"])

\* a peer of the environment gossips a value to the node; the peer may have
\* used some of its msg_ids for requests to other nodes
PeerBroadcast(p, n) ==
    /\ budget.peer_ops > 0
    /\ TopologyAcked(n)
    /\ budget' = [budget EXCEPT !.peer_ops = @ - 1]
    /\ \E msg_id \in latest_message_id[p]..MaxPeerMsgId : \E m \in Values :
           /\ latest_message_id' = [latest_message_id EXCEPT ![p] = msg_id + 1]
           /\ network' = network \cup
                  {request_to(p, NodePeer(n), msg_id, BroadcastRequest(m))}
    /\ UNCHANGED <<waiting_for, responses, requests, messages, broadcast_to, handlers,
                   fanouts, received, emitted, returned, ignored, client_inbox,
                   client_msg_id, topoVars, appVars>>

\* a peer of the environment handles a broadcast request: it answers broadcast_ok
PeerAnswer(p) ==
    \E message \in network :
        /\ message.dest = NodePeer(p)
        /\ IsBroadcastRequest(message)
        /\ network' = (network \ {message}) \cup {reply_for(message, EmptyPayload).value}
        /\ UNCHANGED <<nodeVars, client_inbox, client_msg_id, budget, topoVars, appVars>>

\* the error bodies of the harness, and one whose code is null
ErrorPayloads ==
    {[code |-> c, text |-> "temporarily unavailable"] : c \in {JsonNumber(11), JsonNull}}

\* a peer of the environment misbehaves: the request is lost, it is answered
\* with an error, or it is answered while a copy of it stays in flight
PeerFault(p) ==
    \E message \in network :
        /\ message.dest = NodePeer(p)
        /\ IsBroadcastRequest(message)
        /\ budget.faults > 0
        /\ budget' = [budget EXCEPT !.faults = @ - 1]
        /\ \/ network' = network \ {message}
           \/ \E payload \in ErrorPayloads :
                  network' = (network \ {message}) \cup
                      {[reply_for(message, payload).value EXCEPT !.body.type = "error"]}
           \/ network' = network \cup {reply_for(message, EmptyPayload).value}
        /\ UNCHANGED <<nodeVars, client_inbox, client_msg_id, topoVars, appVars>>

InitEnv(running, overlays, ops, peer_ops, timeouts, faults) ==
    /\ \E E \in overlays :
           network = {TopologyRequestTo(n, Cardinality({p \in running : p < n}), E) :
                         n \in running}
    /\ client_inbox = {}
    /\ client_msg_id = Cardinality(running)
    /\ budget = [ops |-> ops, peer_ops |-> peer_ops, timeouts |-> timeouts,
                 faults |-> faults]

InitEnvIdle ==
    /\ network = {}
    /\ client_inbox = {}
    /\ client_msg_id = 0
    /\ budget = [ops |-> 0, peer_ops |-> 0, timeouts |-> 0, faults |-> 0]

\* Spec: the program on one node; the client and the peers are the environment
Init == InitNodes /\ InitEnv({Self}, NodeOverlays, MaxOps, MaxPeerOps, MaxTimeouts, MaxFaults)
            /\ InitTopoIdle /\ InitAppIdle

Next ==
    \/ NodeStep(Self)
    \/ Timeout(Self)
    \/ ClientBroadcast(Self)
    \/ ClientRead(Self)
    \/ \E p \in Nodes \ {Self} : PeerBroadcast(p, Self) \/ PeerAnswer(p) \/ PeerFault(p)

Spec == Init /\ [][Next]_vars

\* SpecCluster: the program on every node, every reply arriving within the
\* timeout window; the client is the environment
InitCluster == InitNodes /\ InitEnv(Nodes, ClusterOverlays, MaxBroadcasts, 0, 0, 0)
                   /\ InitTopoIdle /\ InitAppIdle

NextCluster ==
    \/ \E n \in Nodes : NodeStep(n)
    \/ \E n \in Nodes : ClientBroadcast(n)

SpecCluster == InitCluster /\ [][NextCluster]_vars

\* SpecTopo and SpecOverlay: the topology engine alone
NextTopo == (\E r \in Runs : TopologyNext(r)) /\ UNCHANGED <<nodeVars, envVars, appVars>>

InitTopo == InitTopoMaps /\ InitNodes /\ InitEnvIdle /\ InitAppIdle
InitOverlay == InitOverlayMaps /\ InitNodes /\ InitEnvIdle /\ InitAppIdle

SpecTopo == InitTopo /\ [][NextTopo]_vars
SpecOverlay == InitOverlay /\ [][NextTopo]_vars

(***************************************************************************)
(* Properties of the topology engine.                                      *)
(***************************************************************************)

Ran(r) == next_of[r] # <<>>

\* how often x occurs in the list s
Occurrences(s, x) == Cardinality({i \in 1..Len(s) : s[i] = x})

\* the lists are equal up to the order of their elements
SameUpToOrder(s1, s2) ==
    /\ Len(s1) = Len(s2)
    /\ \A x \in Range(s1) \cup Range(s2) : Occurrences(s1, x) = Occurrences(s2, x)

IsAscending(s) == \A i \in 1..(Len(s) - 1) : s[i] <= s[i + 1]

SameKeys == DOMAIN topology[1] = DOMAIN topology[2]

SameNeighbourSets ==
    \A k \in DOMAIN topology[1] : Range(topology[1][k]) = Range(topology[2][k])

SameNeighbourLists ==
    \A k \in DOMAIN topology[1] : SameUpToOrder(topology[1][k], topology[2][k])

\* C7 as stated: two maps with the same keys and the same neighbour sets give
\* the same next(n) for every n, whatever the order of the lists and of the keys.
C7_SameSetsSameNext ==
    (Ran(1) /\ Ran(2) /\ SameKeys /\ SameNeighbourSets) => next_of[1] = next_of[2]

\* C7 amended: two maps with the same keys whose neighbour lists are equal up to
\* order (the same elements equally often) give the same next(n) for every n,
\* whatever the order of the lists and the iteration order of the keys.
C7_SameListsSameNext ==
    (Ran(1) /\ Ran(2) /\ SameKeys /\ SameNeighbourLists) => next_of[1] = next_of[2]

\* two runs on maps that differ in the order of a list only, with a hop found
C7_Witness ==
    /\ Ran(1) /\ Ran(2) /\ SameKeys /\ SameNeighbourLists
    /\ \E k \in DOMAIN topology[1] :
           /\ Len(topology[1][k]) = 2
           /\ ~IsAscending(topology[2][k])
           /\ topology[1][k] # topology[2][k]
    /\ \E n \in AllIds : Len(next_of[1][n]) = 2

\* the traversal of run r records no cycle
NoCycle(r) ==
    FindCycles(From(topology[r]),
               CHOOSE keys \in KeyOrders(DOMAIN topology[r]) : TRUE) = <<>>

\* C9: when the traversal records no cycle, next(n) is n's neighbour list in
\* ascending order; a node without an entry in the map (so every node of the
\* empty map) gets the empty list.
C9_NoCycleNeighbours ==
    \A r \in Runs : Ran(r) =>
        \A n \in AllIds :
            IF n \notin DOMAIN topology[r] THEN next_of[r][n] = <<>>
            ELSE NoCycle(r) =>
                    /\ SameUpToOrder(next_of[r][n], topology[r][n])
                    /\ IsAscending(next_of[r][n])

\* a run without a cycle on a map with a descending list, one node without entry
C9_Witness ==
    /\ Ran(2) /\ NoCycle(2)
    /\ \E n \in DOMAIN topology[2] :
           Len(topology[2][n]) = 2 /\ topology[2][n][1] > topology[2][n][2]
    /\ \E n \in AllIds : n \notin DOMAIN topology[2]

\* the 2x2 grid of tests::two_neighbors
Grid == <<(<<2, 3>>), (<<1, 4>>), (<<1, 4>>), (<<2, 3>>)>>

IsGrid(r) ==
    /\ DOMAIN topology[r] = DOMAIN Grid
    /\ \A n \in DOMAIN Grid : SameUpToOrder(topology[r][n], Grid[n])

RECURSIVE Follow(_, _, _)
\* the nodes met by following the single hop of each node, k times, from n
Follow(hops, n, k) ==
    IF k = 0 \/ Len(hops[n]) # 1 THEN <<>> ELSE <<hops[n][1]>> \o Follow(hops, hops[n][1], k - 1)

\* C8: on the 2x2 grid next(1)=[3], next(2)=[1], next(3)=[4], next(4)=[2]: one
\* hop per node, and the four hops form one directed ring through all nodes.
C8_GridRing ==
    \A r \in Runs : (Ran(r) /\ IsGrid(r)) =>
        /\ next_of[r][1] = <<3>> /\ next_of[r][2] = <<1>>
        /\ next_of[r][3] = <<4>> /\ next_of[r][4] = <<2>>
        /\ \A n \in DOMAIN Grid :
               LET ring == Follow(next_of[r], n, 4)
               IN  Range(ring) = DOMAIN Grid /\ ring[4] = n

C8_Witness == Ran(1) /\ Ran(2) /\ IsGrid(1) /\ IsGrid(2) /\ topology[1] # topology[2]

IsSymmetric(m) ==
    \A a \in DOMAIN m : \A b \in Range(m[a]) : b \in DOMAIN m /\ a \in Range(m[b])

IsConnected(m) == IsConnectedOverlay(m)

\* C10: for a connected overlay with symmetric adjacency, the directed graph
\* with an edge n -> p for every p in next(n) reaches every node from every node.
C10_HopsReachAll ==
    \A r \in Runs :
        (Ran(r) /\ IsSymmetric(topology[r]) /\ IsConnected(topology[r])) =>
            \A a \in DOMAIN topology[r] :
                ReachableVia(next_of[r], {a}) = DOMAIN topology[r]

\* a connected overlay on all nodes that is no ring: a node with two hops
C10_Witness ==
    /\ Ran(1) /\ IsSymmetric(topology[1]) /\ IsConnected(topology[1])
    /\ DOMAIN topology[1] = 1..MaxOverlay
    /\ \E n \in DOMAIN topology[1] : Len(next_of[1][n]) >= 2
    /\ \E n \in DOMAIN topology[1] : Len(topology[1][n]) > Len(next_of[1][n])
(***************************************************************************)
(* Properties of the node runtime and of the broadcast workload.           *)
(***************************************************************************)

IsBroadcast(q) == IsBroadcastRequest(q)

\* the replies node n has put on its outbound queue
Replies(n) == BagToSet(emitted[n])

\* the replies node n puts on its outbound queue in this step
NewReplies(n) ==
    {r \in BagToSet(emitted'[n]) : CopiesIn(r, emitted'[n]) > CopiesIn(r, emitted[n])}

\* the requests node n has received that carry the msg_id the reply r names
SameMsgId(n, r) == {q \in received[n] : q.body.msg_id = r.body.in_reply_to}

\* r has the type of a reply to q
ReplyTypeOf(r, q) == r.body.type = q.body.type \o "_ok" \/ r.body.type = "error"

\* C1 as stated: when a reply is put on the outbound queue, exactly one of the
\* requests received so far carries the msg_id its in_reply_to names, the
\* reply's type being that request's type followed by "_ok" (or "error")
C1_OneRequestPerMsgId ==
    [][\A n \in Nodes : \A r \in NewReplies(n) :
           Cardinality({q \in SameMsgId(n, r) : ReplyTypeOf(r, q)}) = 1]_vars

\* the requests node n has received from the peer the reply r goes to, under
\* the msg_id the reply names
RequestsAnswered(n, r) == {q \in SameMsgId(n, r) : q.src = r.dest /\ q.dest = r.src}

\* C1: when a reply is put on the outbound queue, exactly one of the requests
\* received so far comes from the peer the reply is addressed to and carries
\* the msg_id its in_reply_to names (msg_ids are per sender); the reply's type
\* is that request's type followed by "_ok", and it was not enqueued before
C1_OneRequestPerSenderAndMsgId ==
    [][\A n \in Nodes : \A r \in NewReplies(n) :
           /\ Cardinality(RequestsAnswered(n, r)) = 1
           /\ \A q \in RequestsAnswered(n, r) : r.body.type = q.body.type \o "_ok"
           /\ CopiesIn(r, emitted[n]) = 0
           /\ CopiesIn(r, emitted'[n]) = 1]_vars

\* the node has replied to a client and to a peer that used the same msg_id
C1_Witness ==
    \E r1, r2 \in Replies(Self) :
        /\ r1.body.in_reply_to = r2.body.in_reply_to
        /\ r1.dest = Client
        /\ IsNodePeer(r2.dest)
        /\ r1.body.type = "broadcast_ok" /\ r2.body.type = "broadcast_ok"

\* no message is in flight and no task can take a step
Quiescent ==
    /\ network = {}
    /\ \A n \in Nodes :
           /\ responses[n] = <<>> /\ requests[n] = <<>>
           /\ handlers[n] = {}
           /\ \A f \in fanouts[n] : f.pc = "await" /\ f.rx = <<>>

\* the values of the broadcast requests the nodes of the cluster received
Observed == UNION {{q.body.message : q \in {q \in received[n] : IsBroadcast(q)}} : n \in Nodes}

\* C2: in a quiescent cluster with the topology installed on every node, the
\* seen set of every node is the set of all values some node received in a
\* broadcast request
C2_QuiescentConverged ==
    (Quiescent /\ \A n \in Nodes : TopologyAcked(n)) =>
        \A n \in Nodes : messages[n] = Observed

\* the cluster is quiescent after a broadcast that had to travel
C2_Witness ==
    /\ Quiescent
    /\ Observed # {}
    /\ \A n \in Nodes : messages[n] = Observed /\ \E q \in received[n] : IsBroadcast(q)

\* C3 as stated: whatever the interleaving of the broadcast{m} requests a node
\* receives, a peer is the target of at most one fan-out task per value m
C3_OneFanoutPerValue ==
    \A n \in Nodes : \A f, g \in fanouts[n] :
        (f.message = g.message /\ f.node_id = g.node_id) => f = g

\* the values of the broadcast requests whose handler is through with the seen set
Delivered(n) ==
    {q.body.message : q \in {q \in received[n] :
        IsBroadcast(q) /\ ~ \E h \in handlers[n] : h.msg = q}}

\* a step changes the seen set of a node only by adding the value of a
\* broadcast request that node is handling
SeenStep ==
    \A n \in Nodes :
        messages'[n] # messages[n] =>
            \E h \in handlers[n] :
                /\ IsBroadcast(h.msg)
                /\ messages'[n] = messages[n] \cup {h.msg.body.message}

\* C4: the seen set of a node is the set of the values delivered to it, however
\* often and by whomever each was delivered, and a step only ever adds the
\* delivered value to it
C4_SeenIsDelivered ==
    /\ [](\A n \in Nodes : messages[n] = Delivered(n))
    /\ [][SeenStep]_vars

\* the node handled the same value twice, from the client and from a peer,
\* and holds it once
C4_Witness ==
    \E q1, q2 \in received[Self] :
        /\ IsBroadcast(q1) /\ IsBroadcast(q2)
        /\ q1.src = Client /\ IsNodePeer(q2.src)
        /\ q1.body.message = q2.body.message
        /\ handlers[Self] = {}
        /\ messages[Self] = {q1.body.message}

\* a send call of the task is in flight: it was called and has neither
\* returned nor been cancelled
InFlight(f) == f.pc \in {"register", "await"}

\* C5 as stated: waiting_for is empty exactly when no send is in flight
C5_PendingIffInFlight ==
    \A n \in Nodes :
        (waiting_for[n] = <<>>) <=> ~ \E f \in fanouts[n] : InFlight(f)

\* C6 as stated: a send that returns got the reply to its own msg_id, and no
\* send is in flight while the dispatcher has consumed, and handed to no
\* caller, the reply to its msg_id
C6_ReplyReachesCaller ==
    \A n \in Nodes :
        /\ \A s \in returned[n] : s.in_reply_to = s.msg_id
        /\ \A f \in fanouts[n] :
               (InFlight(f) /\ f.rx = <<>>) =>
                   ~ \E r \in ignored[n] : r.body.in_reply_to = f.msg_id

\* the node the request of a handler came from, if it came from a node
SenderNode(message) == IF IsNodePeer(message.src) THEN {message.src[2]} ELSE {}

\* the recipients of the fan-out tasks spawned in this step for the request
SpawnedFor(n, message) ==
    {f.node_id : f \in {f \in fanouts'[n] \ fanouts[n] :
        f.msg_id = -1 /\ f.req = <<message.src, message.body.msg_id>>}}

\* C11: the handler of a new broadcast spawns fan-out tasks for exactly the
\* nodes of broadcast_to other than the node the request came from (for all of
\* broadcast_to when it came from a client), and no fan-out task ever targets
\* the node its request came from
C11_NoEcho ==
    /\ [](\A n \in Nodes : \A f \in fanouts[n] : f.req[1] # NodePeer(f.node_id))
    /\ [][\A n \in Nodes : \A h \in handlers[n] :
             (h.pc = "insert" /\ h \notin handlers'[n]) =>
                 SpawnedFor(n, h.msg) = Range(broadcast_to[n]) \ SenderNode(h.msg)]_vars

\* a node with two next hops forwards a value it got from one of them to the
\* other one only
C11_Witness ==
    \E n \in Nodes : \E f \in fanouts[n] :
        /\ Len(broadcast_to[n]) = 2
        /\ IsNodePeer(f.req[1])
        /\ f.req[1][2] \in Range(broadcast_to[n])
        /\ {g.node_id : g \in {g \in fanouts[n] : g.req = f.req}} =
               Range(broadcast_to[n]) \ {f.req[1][2]}

(***************************************************************************)
(* The unique-ids workload (unique-ids-node): every generate request is    *)
(* answered with an id made of the node's id and a local counter.          *)
(***************************************************************************)

\* width of the ids (u64) and the shift that places the node id in them
U64Bits == 64
IdShift == 32
\* generate requests the client sends to the cluster
MaxGenerate == 3

\* the k low bits of v, lowest first
RECURSIVE BitsOf(_, _)
BitsOf(v, k) == IF k = 0 THEN <<>> ELSE <<v % 2>> \o BitsOf(v \div 2, k - 1)

\* u64::from
ToU64(v) == BitsOf(v, U64Bits)

\* a << k on u64: the bits moved past the top are lost
Shl(a, k) == [i \in 1..U64Bits |-> IF i <= k THEN 0 ELSE a[i - k]]

\* a | b on u64
BitOr(a, b) == [i \in 1..U64Bits |-> IF a[i] = 1 \/ b[i] = 1 THEN 1 ELSE 0]

\* an id that leaves the node id where the counter is
GenerateIdNoShift(node_id, count) == BitOr(ToU64(node_id), ToU64(count))

\* u64::from(node.id) << 32 | counter
GenerateId(node_id, count) == BitOr(Shl(ToU64(node_id), IdShift), ToU64(count))

\* message.clone_into::<protocol::Request<GenerateRequest>>() succeeds
IsGenerateRequest(message) == IsRequest(message, {})

InitUniqueIds == ids_counter = [n \in Nodes |-> 0]

\* UniqueIdsHandler::handle up to fetch_add: a message that is no request ends
\* the task, a request takes the counter's value and increments it
GenerateFetch(n) ==
    \E h \in handlers[n] :
        /\ h.pc = "start"
        /\ IF IsGenerateRequest(h.msg)
           THEN /\ ids_counter' = [ids_counter EXCEPT ![n] = @ + 1]
                /\ handlers' = [handlers EXCEPT ![n] = (@ \ {h}) \cup
                       {[h EXCEPT !.pc = "reply",
                                  !.payload = [counter |-> ids_counter[n]]]}]
           ELSE /\ handlers' = [handlers EXCEPT ![n] = @ \ {h}]
                /\ UNCHANGED ids_counter
        /\ UNCHANGED <<latest_message_id, waiting_for, responses, requests, messages,
                       broadcast_to, fanouts, received, emitted, returned, ignored,
                       envVars, topoVars, gcVars, kafkaVars, mainVars>>

\* UniqueIdsHandler::handle from the id on: the id is computed and the reply
\* is put on the outbound channel
GenerateReply(n) ==
    \E h \in handlers[n] :
        /\ h.pc = "reply"
        /\ Reply(n, h.msg, [id |-> GenerateId(n, h.payload.counter)])
        /\ handlers' = [handlers EXCEPT ![n] = @ \ {h}]
        /\ UNCHANGED <<latest_message_id, waiting_for, requests, messages, broadcast_to,
                       fanouts, received, returned, ignored, envVars, topoVars, appVars>>

\* the client sends a generate request to node n without waiting for the
\* replies to its earlier requests
ClientGenerate(n) ==
    /\ budget.ops > 0
    /\ budget' = [budget EXCEPT !.ops = @ - 1]
    /\ client_msg_id' = client_msg_id + 1
    /\ network' = network \cup
           {[src |-> Client, dest |-> NodePeer(n),
             body |-> [type |-> "generate", msg_id |-> client_msg_id]]}
    /\ UNCHANGED <<nodeVars, client_inbox, topoVars, appVars>>

\* SpecUniqueIds: the unique-ids program on every node
InitUniqueIdsCluster ==
    /\ InitNodes
    /\ network = {} /\ client_inbox = {} /\ client_msg_id = 0
    /\ budget = [ops |-> MaxGenerate, peer_ops |-> 0, timeouts |-> 0, faults |-> 0]
    /\ InitTopoIdle
    /\ InitUniqueIds
    /\ InitGCounterIdle
    /\ InitKafkaIdle
    /\ InitMainIdle

NextUniqueIds ==
    \E n \in Nodes :
        \/ ClientGenerate(n)
        \/ ReadFromStdin(n)
        \/ Listen(n)
        \/ GenerateFetch(n)
        \/ GenerateReply(n)
        \/ WriteToStdout(n)

SpecUniqueIds == InitUniqueIdsCluster /\ [][NextUniqueIds]_vars

\* the number a bit string stands for
RECURSIVE FromBits(_)
FromBits(b) == IF b = <<>> THEN 0 ELSE Head(b) + 2 * FromBits(Tail(b))

\* the two halves of an id
HighHalf(v) == FromBits(SubSeq(v, IdShift + 1, U64Bits))
LowHalf(v) == FromBits(SubSeq(v, 1, IdShift))

\* the generate replies node n has emitted, and the counters n has handed out
GenerateReplies(n) == BagToSet(emitted[n])
CountersTaken(n) ==
    {LowHalf(r.body.id) : r \in GenerateReplies(n)}
        \cup {h.payload.counter : h \in {h \in handlers[n] : h.pc = "reply"}}

\* C12: every generate reply of node n carries the id whose high half is n and
\* whose low half is a counter value; the counter starts at 0 and goes up by
\* one per request, each request getting its own value; and the ids emitted
\* by all nodes are pairwise distinct, however the handler tasks interleave.
C12_IdsDistinct ==
    /\ \A n \in Nodes : \A r \in GenerateReplies(n) :
           /\ r.body.type = "generate_ok"
           /\ HighHalf(r.body.id) = n
           /\ LowHalf(r.body.id) < ids_counter[n]
    /\ \A n \in Nodes :
           /\ CountersTaken(n) = 0..(ids_counter[n] - 1)
           /\ BagCardinality(emitted[n])
                + Cardinality({h \in handlers[n] : h.pc = "reply"}) = ids_counter[n]
    /\ \A n1, n2 \in Nodes : \A r1 \in GenerateReplies(n1) : \A r2 \in GenerateReplies(n2) :
           r1.body.id = r2.body.id => r1 = r2

\* two nodes have emitted ids, one of them two ids that two tasks produced in
\* the order opposite to that of their requests
C12_Witness ==
    \E n1, n2 \in Nodes :
        /\ n1 # n2
        /\ GenerateReplies(n2) # {}
        /\ \E r1, r2 \in GenerateReplies(n1) :
               /\ r1.body.in_reply_to < r2.body.in_reply_to
               /\ LowHalf(r1.body.id) > LowHalf(r2.body.id)

(***************************************************************************)
(* The grow-only counter (g-counter-node) over the kv client (kv) and the  *)
(* seq-kv service of the harness.                                          *)
(***************************************************************************)

\* the nodes that run the counter and the amounts the client adds
GcNodes == {1, 2}
Deltas == {3, 4}
\* add and read requests the client sends to the cluster
MaxAdds == 2
MaxReads == 1

\* Node.node_ids: the node_ids of the init request
node_ids == <<1, 2>>

\* ids::Store::Seq as a peer, and the keys the counter uses
SeqKv == <<"s", "seq-kv">>
NodeKey(node_id) == <<"n", node_id>>
SeqKey(node_id) == <<"n", node_id, "_seq">>

\* the requests of KV::read and KV::write
KvReadRequest(key) == [type |-> "read", key |-> key]
KvWriteRequest(key, value) == [type |-> "write", key |-> key, value |-> value]

\* the code an error body decodes to: null is the only value that decodes,
\* and it decodes as the first variant
ErrorCodeOf(body) == "Timeout"

\* KV::write returns: the error, or Ok (WriteResponse has no field)
KvWriteResult(body) ==
    IF IsErrorResponse(body) THEN Err([kind |-> "Response", code |-> ErrorCodeOf(body)])
    ELSE Ok(<<>>)

\* KV::read::<i64> returns: the error, the value, or a decode error
KvReadResult(body) ==
    IF IsErrorResponse(body) THEN Err([kind |-> "Response", code |-> ErrorCodeOf(body)])
    ELSE IF "value" \in DOMAIN body THEN Ok(body.value)
    ELSE Err([kind |-> "Json"])

\* the match of fetch_node_delta on what KV::read returned
FetchResult(body) ==
    LET result == KvReadResult(body)
    IN  IF result.ok THEN result
        ELSE IF result.error.kind = "Response" /\ result.error.code = "KeyDoesNotExist"
        THEN Ok(0)
        ELSE result

\* the branch of GCounterHandler::handle a message takes
IsAddRequest(message) == IsRequest(message, {"delta"})
IsCounterReadRequest(message) == ~ IsAddRequest(message) /\ IsRequest(message, {})

\* a call of the kv client made for the request message: the i-th of its
\* handler, about node_id, at the start of Node::send
KvCall(message, i, node_id, op, payload) ==
    [req |-> <<message.src, message.body.msg_id>>, idx |-> i, node_id |-> node_id,
     op |-> op, message |-> payload, pc |-> "kv", msg_id |-> -1, rx |-> <<>>]

\* the positions of node_ids that are not the node itself
OtherPositions(n) == {i \in 1..Len(node_ids) : node_ids[i] # n}

RECURSIVE SumOf(_, _)
\* the sum of f over the set S
SumOf(f, S) ==
    IF S = {} THEN 0
    ELSE LET x == CHOOSE x \in S : TRUE IN f[x] + SumOf(f, S \ {x})

InitGCounter ==
    /\ delta = [n \in GcNodes |-> 0]
    /\ counter = [n \in GcNodes |-> 0]
    /\ store = <<>>

\* GCounterHandler::handle up to its first await.  add: delta.fetch_add, then
\* the write of the new total under the node's key is started.  read: the
\* node's own delta is taken and, for every other node, counter.fetch_add
\* gives the value to write under the node's _seq key.
GcStart(n) ==
    \E h \in handlers[n] :
        /\ h.pc = "start"
        /\ IF IsAddRequest(h.msg)
           THEN /\ delta' = [delta EXCEPT ![n] = @ + h.msg.body.delta]
                /\ fanouts' = [fanouts EXCEPT ![n] = @ \cup
                       {KvCall(h.msg, 1, n, "add_write",
                               KvWriteRequest(NodeKey(n), delta[n] + h.msg.body.delta))}]
                /\ handlers' = [handlers EXCEPT ![n] =
                       (@ \ {h}) \cup {[h EXCEPT !.pc = "join"]}]
                /\ UNCHANGED counter
           ELSE IF IsCounterReadRequest(h.msg)
           THEN /\ counter' = [counter EXCEPT ![n] = @ + Cardinality(OtherPositions(n))]
                /\ fanouts' = [fanouts EXCEPT ![n] = @ \cup
                       {KvCall(h.msg, i, node_ids[i], "seq_write",
                               KvWriteRequest(SeqKey(node_ids[i]),
                                   counter[n] + Cardinality({j \in OtherPositions(n) : j < i})))
                           : i \in OtherPositions(n)}]
                /\ handlers' = [handlers EXCEPT ![n] = (@ \ {h}) \cup
                       {[h EXCEPT !.pc = "join", !.payload = (n :> delta[n])]}]
                /\ UNCHANGED delta
           ELSE /\ handlers' = [handlers EXCEPT ![n] = @ \ {h}]
                /\ UNCHANGED <<delta, counter, fanouts>>
        /\ UNCHANGED <<latest_message_id, waiting_for, responses, requests, messages,
                       broadcast_to, received, emitted, returned, ignored, store,
                       envVars, topoVars, uidVars, kafkaVars, mainVars>>

\* Node::send of a kv call up to wait_for_reply
KvSend(n) ==
    \E f \in fanouts[n] :
        /\ f.pc = "kv"
        /\ HasRoom(responses[n])
        /\ latest_message_id' = [latest_message_id EXCEPT ![n] = @ + 1]
        /\ responses' = [responses EXCEPT ![n] =
               Append(@, request_to(n, SeqKv, latest_message_id[n], f.message))]
        /\ fanouts' = UpdateTask(n, f, [f EXCEPT !.pc = "register",
                                                !.msg_id = latest_message_id[n]])
        /\ UNCHANGED <<waiting_for, requests, messages, broadcast_to, handlers, received,
                       emitted, returned, ignored, envVars, topoVars, appVars>>

\* the handler task of node n that made the kv call f
CallerOf(n, f) == CHOOSE h \in handlers[n] : <<h.msg.src, h.msg.body.msg_id>> = f.req

\* the handler's unwrap meets an Err: the task ends with its kv calls
GcPanic(n, f) ==
    /\ handlers' = [handlers EXCEPT ![n] = @ \ {CallerOf(n, f)}]
    /\ fanouts' = [fanouts EXCEPT ![n] = {g \in @ : g.req # f.req}]
    /\ UNCHANGED <<responses, emitted>>

\* a kv call returns to GCounterHandler::handle.  add: the write is unwrapped
\* and add_ok is sent.  read: after the write of the _seq key the node's key
\* is read; when every node's delta is there the sum is sent.
KvReturn(n) ==
    \E f \in fanouts[n] :
        /\ f.pc = "await"
        /\ f.rx # <<>>
        /\ waiting_for' = [waiting_for EXCEPT ![n] = MapRemove(@, f.msg_id)]
        /\ LET h == CallerOf(n, f)
               body == f.rx[1]
           IN  IF f.op = "add_write"
               THEN IF KvWriteResult(body).ok
                    THEN /\ Reply(n, h.msg, EmptyPayload)
                         /\ handlers' = [handlers EXCEPT ![n] = @ \ {h}]
                         /\ fanouts' = [fanouts EXCEPT ![n] = @ \ {f}]
                    ELSE GcPanic(n, f)
               ELSE IF f.op = "seq_write"
               THEN IF KvWriteResult(body).ok
                    THEN /\ fanouts' = UpdateTask(n, f,
                                [f EXCEPT !.op = "peer_read", !.pc = "kv", !.rx = <<>>,
                                          !.msg_id = -1,
                                          !.message = KvReadRequest(NodeKey(f.node_id))])
                         /\ UNCHANGED <<handlers, responses, emitted>>
                    ELSE GcPanic(n, f)
               ELSE IF FetchResult(body).ok
                    THEN LET deltas == (f.node_id :> FetchResult(body).value) @@ h.payload
                         IN  IF DOMAIN deltas = Range(node_ids)
                             THEN /\ Reply(n, h.msg, [value |-> SumOf(deltas, DOMAIN deltas)])
                                  /\ handlers' = [handlers EXCEPT ![n] = @ \ {h}]
                                  /\ fanouts' = [fanouts EXCEPT ![n] = @ \ {f}]
                             ELSE /\ handlers' = [handlers EXCEPT ![n] =
                                         (@ \ {h}) \cup {[h EXCEPT !.payload = deltas]}]
                                  /\ fanouts' = [fanouts EXCEPT ![n] = @ \ {f}]
                                  /\ UNCHANGED <<responses, emitted>>
                    ELSE GcPanic(n, f)
        /\ UNCHANGED <<latest_message_id, requests, messages, broadcast_to, received,
                       returned, ignored, envVars, topoVars, appVars>>

\* the seq-kv service handles a request: a write replaces the key's value, a
\* read returns it, and a read of a key that does not exist is an error 20
KvServe ==
    \E message \in network :
        /\ message.dest = SeqKv
        /\ IF message.body.type = "write"
           THEN /\ store' = MapInsert(store, message.body.key, message.body.value)
                /\ network' = (network \ {message}) \cup
                       {reply_for(message, EmptyPayload).value}
           ELSE /\ UNCHANGED store
                /\ network' = (network \ {message}) \cup
                       {IF message.body.key \in DOMAIN store
                        THEN reply_for(message, [value |-> store[message.body.key]]).value
                        ELSE [reply_for(message, [code |-> JsonNumber(20),
                                                  text |-> "key does not exist"]).value
                                 EXCEPT !.body.type = "error"]}
        /\ UNCHANGED <<nodeVars, client_inbox, client_msg_id, budget, topoVars,
                       uidVars, delta, counter, kafkaVars, mainVars>>

\* the client adds d at node n; it does so as long as it has not read
ClientAdd(n) ==
    /\ budget.ops > 0
    /\ budget.reads = MaxReads
    /\ budget' = [budget EXCEPT !.ops = @ - 1]
    /\ client_msg_id' = client_msg_id + 1
    /\ \E d \in Deltas :
           network' = network \cup
               {[src |-> Client, dest |-> NodePeer(n),
                 body |-> [type |-> "add", msg_id |-> client_msg_id, delta |-> d]]}
    /\ UNCHANGED <<nodeVars, client_inbox, topoVars, appVars>>

\* the client, holding add_ok for every add it sent, reads the counter at n
ClientCounterRead(n) ==
    /\ budget.reads > 0
    /\ ClientIdle
    /\ budget' = [budget EXCEPT !.reads = @ - 1]
    /\ client_msg_id' = client_msg_id + 1
    /\ network' = network \cup
           {[src |-> Client, dest |-> NodePeer(n),
             body |-> [type |-> "read", msg_id |-> client_msg_id]]}
    /\ UNCHANGED <<nodeVars, client_inbox, topoVars, appVars>>

\* SpecGCounter: the counter program on the nodes of node_ids, and seq-kv
InitGCounterCluster ==
    /\ InitNodes
    /\ network = {} /\ client_inbox = {} /\ client_msg_id = 0
    /\ budget = [ops |-> MaxAdds, reads |-> MaxReads, peer_ops |-> 0, timeouts |-> 0,
                 faults |-> 0]
    /\ InitTopoIdle
    /\ InitUniqueIdsIdle
    /\ InitGCounter
    /\ InitKafkaIdle
    /\ InitMainIdle

NextGCounter ==
    \/ \E n \in GcNodes :
           \/ ClientAdd(n)
           \/ ClientCounterRead(n)
           \/ ReadFromStdin(n)
           \/ Listen(n)
           \/ GcStart(n)
           \/ KvSend(n)
           \/ WaitRegister(n)
           \/ KvReturn(n)
           \/ WriteToStdout(n)
    \/ KvServe

SpecGCounter == InitGCounterCluster /\ [][NextGCounter]_vars

\* the add requests the nodes have handled, and the sum of their deltas
AddsHandled == {m \in UNION {received[n] : n \in GcNodes} : IsAddRequest(m)}
TotalAdded == SumOf([m \in AddsHandled |-> m.body.delta], AddsHandled)

\* the replies to read requests the nodes have emitted
CounterReads ==
    {r \in UNION {BagToSet(emitted[n]) : n \in GcNodes} : r.body.type = "read_ok"}

\* C13: a read sent after every add was acknowledged with add_ok is answered
\* with read_ok whose value is the sum of all added deltas.
C13_ReadIsSum == \A r \in CounterReads : r.body.value = TotalAdded

(***************************************************************************)
(* The log workload (kafka-node): one log per key, held under a            *)
(* read/write lock.                                                        *)
(***************************************************************************)

\* the keys of the logs and the offsets a request may carry
Keys == {"k1", "k2"}
MaxOffset == 2
\* send requests and other requests the client sends to the node
MaxSends == 2
MaxPolls == 1

\* the variants of the enum Request with their fields; the tag of an enum is
\* what selects the variant when it is deserialized
RequestFields ==
    [send |-> {"key", "msg"}, poll |-> {"offsets"}, commit_offsets |-> {"offsets"},
     list_committed_offsets |-> {"keys"}]

\* message.clone_into::<protocol::Request<Request>>() succeeds
IsKafkaRequest(message) ==
    /\ IsRequest(message, {"type"})
    /\ message.body.type \in DOMAIN RequestFields
    /\ RequestFields[message.body.type] \subseteq DOMAIN message.body

\* logs.entry(key).or_default()
LogOf(map, key) == IF key \in DOMAIN map THEN map[key] ELSE <<>>

\* an offset taken after the push
KafkaOffsetAfterPush(log) == Len(log) + 1

\* let offset = log.len()
KafkaOffset(log) == Len(log)

\* log.into_iter().enumerate().collect::<Vec<_>>()
Enumerate(log) == [i \in 1..Len(log) |-> <<i - 1, log[i]>>]

\* log[offset..] is defined for offset <= log.len() and panics beyond
SliceInRange(log, offset) == offset <= Len(log)
SliceFrom(log, offset) == SubSeq(log, offset + 1, Len(log))

\* the poll of a snapshot of logs: the keys of the request that exist
PolledKeys(map, offsets) == DOMAIN map \cap DOMAIN offsets
PollMsgs(map, offsets) ==
    [key \in PolledKeys(map, offsets) |-> SliceFrom(Enumerate(map[key]), offsets[key])]

\* the offset of the last message of each log asked for
ListOffsetsOfLast(map, keys) == [key \in DOMAIN map \cap keys |-> Len(map[key]) - 1]

\* the committed offsets of a snapshot of logs for the keys asked for
ListOffsets(map, keys) == [key \in DOMAIN map \cap keys |-> Len(map[key])]

\* the handler task as a holder of the lock
TaskReq(h) == <<h.msg.src, h.msg.body.msg_id>>

InitKafka ==
    /\ logs = [n \in Nodes |-> <<>>]
    /\ logs_writer = [n \in Nodes |-> {}]

\* the task h of node n goes on to its reply with the payload
ToReply(n, h, payload) ==
    handlers' = [handlers EXCEPT ![n] =
                    (@ \ {h}) \cup {[h EXCEPT !.pc = "reply", !.payload = payload]}]

\* KafkaHandler::handle up to node.reply.  send: the write lock is taken, the
\* offset is the length of the key's log, the message is pushed, and the lock
\* is kept.  poll and list_committed_offsets: logs is cloned under the read
\* lock and the answer is computed from the clone; a slice beyond the end of
\* a log panics.  commit_offsets: nothing.
KafkaStart(n) ==
    \E h \in handlers[n] :
        /\ h.pc = "start"
        /\ IF ~ IsKafkaRequest(h.msg)
           THEN /\ handlers' = [handlers EXCEPT ![n] = @ \ {h}]
                /\ UNCHANGED kafkaVars
           ELSE IF h.msg.body.type = "send"
           THEN /\ logs_writer[n] = {}
                /\ LET log == LogOf(logs[n], h.msg.body.key)
                   IN  /\ logs' = [logs EXCEPT ![n] =
                              MapInsert(@, h.msg.body.key, Append(log, h.msg.body.msg))]
                       /\ ToReply(n, h, [offset |-> KafkaOffset(log)])
                /\ logs_writer' = [logs_writer EXCEPT ![n] = {TaskReq(h)}]
           ELSE IF h.msg.body.type = "poll"
           THEN /\ logs_writer[n] = {}
                /\ IF \A key \in PolledKeys(logs[n], h.msg.body.offsets) :
                          SliceInRange(logs[n][key], h.msg.body.offsets[key])
                   THEN ToReply(n, h, [msgs |-> PollMsgs(logs[n], h.msg.body.offsets)])
                   ELSE handlers' = [handlers EXCEPT ![n] = @ \ {h}]
                /\ UNCHANGED kafkaVars
           ELSE IF h.msg.body.type = "commit_offsets"
           THEN /\ ToReply(n, h, EmptyPayload)
                /\ UNCHANGED kafkaVars
           ELSE /\ logs_writer[n] = {}
                /\ ToReply(n, h, [offsets |-> ListOffsets(logs[n], h.msg.body.keys)])
                /\ UNCHANGED kafkaVars
        /\ UNCHANGED <<latest_message_id, waiting_for, responses, requests, messages,
                       broadcast_to, fanouts, received, emitted, returned, ignored,
                       envVars, topoVars, uidVars, gcVars, mainVars>>

\* node.reply at the end of a branch of KafkaHandler::handle; the branch of
\* send gives up the write lock after it
KafkaReply(n) ==
    \E h \in handlers[n] :
        /\ h.pc = "reply"
        /\ Reply(n, h.msg, h.payload)
        /\ handlers' = [handlers EXCEPT ![n] = @ \ {h}]
        /\ logs_writer' = [logs_writer EXCEPT ![n] = @ \ {TaskReq(h)}]
        /\ UNCHANGED <<latest_message_id, waiting_for, requests, messages, broadcast_to,
                       fanouts, received, returned, ignored, envVars, topoVars,
                       uidVars, gcVars, mainVars, logs>>

\* the client sends payload to node n without waiting for earlier replies
KafkaRequestTo(n, payload) ==
    /\ client_msg_id' = client_msg_id + 1
    /\ network' = network \cup
           {[src |-> Client, dest |-> NodePeer(n),
             body |-> Flatten([msg_id |-> client_msg_id], payload)]}
    /\ UNCHANGED <<nodeVars, client_inbox, topoVars, appVars>>

\* the offsets maps of the client's requests
OffsetMaps == UNION {[S -> 0..MaxOffset] : S \in (SUBSET Keys) \ {{}}}

\* send: the message is told apart by the msg_id of its request
ClientSend(n) ==
    /\ budget.ops > 0
    /\ budget' = [budget EXCEPT !.ops = @ - 1]
    /\ \E key \in Keys :
           KafkaRequestTo(n, [type |-> "send", key |-> key, msg |-> 10 + client_msg_id])

ClientPoll(n) ==
    /\ budget.polls > 0
    /\ budget' = [budget EXCEPT !.polls = @ - 1]
    /\ \E offsets \in OffsetMaps : KafkaRequestTo(n, [type |-> "poll", offsets |-> offsets])

ClientCommitOffsets(n) ==
    /\ budget.polls > 0
    /\ budget' = [budget EXCEPT !.polls = @ - 1]
    /\ \E offsets \in OffsetMaps :
           KafkaRequestTo(n, [type |-> "commit_offsets", offsets |-> offsets])

ClientListCommittedOffsets(n) ==
    /\ budget.polls > 0
    /\ budget' = [budget EXCEPT !.polls = @ - 1]
    /\ \E keys \in (SUBSET Keys) \ {{}} :
           KafkaRequestTo(n, [type |-> "list_committed_offsets", keys |-> keys])

\* SpecKafka: the log program on one node
InitKafkaNode ==
    /\ InitNodes
    /\ network = {} /\ client_inbox = {} /\ client_msg_id = 0
    /\ budget = [ops |-> MaxSends, polls |-> MaxPolls, peer_ops |-> 0, timeouts |-> 0,
                 faults |-> 0]
    /\ InitTopoIdle
    /\ InitUniqueIdsIdle
    /\ InitGCounterIdle
    /\ InitKafka
    /\ InitMainIdle

NextKafka ==
    \/ ClientSend(Self)
    \/ ClientPoll(Self)
    \/ ClientCommitOffsets(Self)
    \/ ClientListCommittedOffsets(Self)
    \/ ReadFromStdin(Self)
    \/ Listen(Self)
    \/ KafkaStart(Self)
    \/ KafkaReply(Self)
    \/ WriteToStdout(Self)

SpecKafka == InitKafkaNode /\ [][NextKafka]_vars

\* the request a reply of the node answers
RequestOf(r) ==
    CHOOSE m \in received[Self] : m.src = r.dest /\ m.body.msg_id = r.body.in_reply_to

\* the replies the node has emitted to requests of the given type
KafkaReplies(type) ==
    {r \in BagToSet(emitted[Self]) : RequestOf(r).body.type = type}

\* the offsets given out for sends on the key: those of the replies emitted
\* and those of the tasks that have pushed and not yet replied
OffsetsReplied(key) ==
    {r.body.offset : r \in {r \in KafkaReplies("send") : RequestOf(r).body.key = key}}
OffsetsPending(key) ==
    {h.payload.offset : h \in {h \in handlers[Self] :
        h.pc = "reply" /\ h.msg.body.type = "send" /\ h.msg.body.key = key}}

\* C14: a send is answered send_ok with the length the key's log had before
\* the append; on every key the offsets given out are 0, 1, 2, ... without a
\* gap or a duplicate, and the log holds at each offset the message of the
\* send that was answered with it.
C14_OffsetsDense ==
    /\ \A r \in KafkaReplies("send") :
           /\ r.body.type = "send_ok"
           /\ emitted[Self][r] = 1
           /\ LET log == LogOf(logs[Self], RequestOf(r).body.key)
              IN  /\ r.body.offset < Len(log)
                  /\ log[r.body.offset + 1] = RequestOf(r).body.msg
    /\ \A r1, r2 \in KafkaReplies("send") :
           (RequestOf(r1).body.key = RequestOf(r2).body.key
               /\ r1.body.offset = r2.body.offset) => r1 = r2
    /\ \A key \in Keys :
           OffsetsReplied(key) \cup OffsetsPending(key)
               = 0..(Len(LogOf(logs[Self], key)) - 1)

\* two sends on one key answered with the offsets 0 and 1, the later request
\* with the smaller offset
C14_Witness ==
    \E r1, r2 \in KafkaReplies("send") :
        /\ RequestOf(r1).body.key = RequestOf(r2).body.key
        /\ r1.body.in_reply_to < r2.body.in_reply_to
        /\ r1.body.offset = 1 /\ r2.body.offset = 0

\* the poll requests whose handler task has ended
PollsDone ==
    {m \in received[Self] :
        IsKafkaRequest(m) /\ m.body.type = "poll" /\ ~ \E h \in handlers[Self] : h.msg = m}

\* pairs lists (i, log[i]) for i from offset up to a length the log has had
IsPollOf(pairs, log, offset) ==
    \E len \in 0..Len(log) :
        pairs = [i \in 1..(IF len > offset THEN len - offset ELSE 0) |->
                    <<offset + i - 1, log[offset + i]>>]

\* C15: every poll request, whatever its offsets, is answered poll_ok; the
\* reply holds, for each requested key that exists, exactly the pairs
\* (i, log[key][i]) from the requested offset to the end of the log (none when
\* the offset is at or beyond the end), and no key that does not exist.
C15_PollAnswered ==
    \A m \in PollsDone :
        \E r \in KafkaReplies("poll") :
            /\ RequestOf(r) = m
            /\ r.body.type = "poll_ok"
            /\ DOMAIN r.body.msgs \subseteq DOMAIN m.body.offsets \cap DOMAIN logs[Self]
            /\ \A key \in DOMAIN r.body.msgs :
                   IsPollOf(r.body.msgs[key], logs[Self][key], m.body.offsets[key])

(***************************************************************************)
(* The echo workload (echo-node).                                          *)
(***************************************************************************)

\* the clients of the harness and the strings they send
EchoClients == {1, 2}
EchoStrings == {"hi", "Please echo 42"}
\* echo requests the clients send to the cluster
MaxEchoes == 2

\* message.clone_into::<protocol::Request<EchoRequest>>() succeeds
IsEchoRequest(message) ==
    /\ IsRequest(message, {"echo"})
    /\ message.body.echo \in STRING

\* EchoHandler::handle: a message that is no echo request ends the task; the
\* reply to an echo request is built (a failure panics) and put on the
\* outbound channel
Echo(n) ==
    \E h \in handlers[n] :
        /\ h.pc = "start"
        /\ handlers' = [handlers EXCEPT ![n] = @ \ {h}]
        /\ IF IsEchoRequest(h.msg) /\ reply_for(h.msg, [echo |-> h.msg.body.echo]).ok
           THEN Reply(n, h.msg, [echo |-> h.msg.body.echo])
           ELSE UNCHANGED <<responses, emitted>>
        /\ UNCHANGED <<latest_message_id, waiting_for, requests, messages, broadcast_to,
                       fanouts, received, returned, ignored, envVars, topoVars, appVars>>

\* client c sends an echo request to node n without waiting for earlier
\* replies; every client numbers its own requests
ClientEcho(c, n) ==
    /\ budget.ops > 0
    /\ budget' = [budget EXCEPT !.ops = @ - 1]
    /\ client_msg_id' = [client_msg_id EXCEPT ![c] = @ + 1]
    /\ \E s \in EchoStrings :
           network' = network \cup
               {[src |-> ClientPeer(c), dest |-> NodePeer(n),
                 body |-> [type |-> "echo", msg_id |-> client_msg_id[c], echo |-> s]]}
    /\ UNCHANGED <<nodeVars, client_inbox, topoVars, appVars>>

\* SpecEcho: the echo program on every node
InitEcho ==
    /\ InitNodes
    /\ network = {} /\ client_inbox = {}
    /\ client_msg_id = [c \in EchoClients |-> 0]
    /\ budget = [ops |-> MaxEchoes, peer_ops |-> 0, timeouts |-> 0, faults |-> 0]
    /\ InitTopoIdle
    /\ InitAppIdle

NextEcho ==
    \E n \in Nodes :
        \/ \E c \in EchoClients : ClientEcho(c, n)
        \/ ReadFromStdin(n)
        \/ Listen(n)
        \/ Echo(n)
        \/ WriteToStdout(n)

SpecEcho == InitEcho /\ [][NextEcho]_vars

\* the echo requests whose handler task on node n has ended
EchoesDone(n) ==
    {m \in received[n] : IsEchoRequest(m) /\ ~ \E h \in handlers[n] : h.msg = m}

\* the outbound messages of node n that answer the request m
AnswersTo(n, m) ==
    {r \in BagToSet(emitted[n]) :
        r.dest = m.src /\ r.body.in_reply_to = m.body.msg_id}

\* C16: an echo request with msg_id i and echo s sent by client c to node n
\* yields exactly one outbound message, from n to c, of type echo_ok, with
\* in_reply_to i and echo s; and nothing else is sent.
C16_EchoReply ==
    \A n \in Nodes :
        /\ \A m \in EchoesDone(n) :
               /\ AnswersTo(n, m) =
                      {[src |-> NodePeer(n), dest |-> m.src,
                        body |-> [type |-> "echo_ok", in_reply_to |-> m.body.msg_id,
                                  echo |-> m.body.echo]]}
               /\ \A r \in AnswersTo(n, m) : emitted[n][r] = 1
        /\ \A r \in BagToSet(emitted[n]) : \E m \in EchoesDone(n) : r \in AnswersTo(n, m)

\* one node has answered two clients that used the same msg_id
C16_Witness ==
    \E n \in Nodes : \E m1, m2 \in EchoesDone(n) :
        /\ m1.src # m2.src
        /\ m1.body.msg_id = m2.body.msg_id
        /\ AnswersTo(n, m1) # {} /\ AnswersTo(n, m2) # {}

(***************************************************************************)
(* The main task of a process (main), with Node::initialize, the reader    *)
(* and the end of the input stream; the handler is the echo handler.       *)
(***************************************************************************)

\* lines the harness writes to the process
MaxLines == 3
\* the node ids an init request may carry
InitIds == {1, 2}

\* Node.id before Node::new
NoId == <<>>

\* message.clone_into::<protocol::Request<InitRequest>>() succeeds: msg_id and
\* node_id are present and node_id is "n" followed by a number
IsInitRequest(message) ==
    /\ IsRequest(message, {"node_id"})
    /\ IsNodePeer(message.body.node_id)

\* an id taken from the address of the request
InitNodeIdFromDest(request) == request.dest[2]

\* request.payload.node_id
InitNodeId(request) == request.body.node_id[2]

InitMain ==
    /\ id = [n \in Nodes |-> NoId]
    /\ main = [n \in Nodes |-> "initialize"]
    /\ stdin = [n \in Nodes |-> "open"]
    /\ reader = [n \in Nodes |-> "running"]
    /\ skipped = [n \in Nodes |-> {}]

\* messages_rx.recv() returns None: the reader has ended and nothing is queued
ChannelClosed(n) == reader[n] = "ended" /\ requests[n] = <<>>

\* Node::initialize, one iteration with a message: anything that is no init
\* request is skipped; an init request is answered (a failure of reply_for
\* panics) and the node is made with its node_id
Initialize(n) ==
    /\ main[n] = "initialize"
    /\ requests[n] # <<>>
    /\ LET message == Head(requests[n])
       IN  /\ requests' = [requests EXCEPT ![n] = Tail(@)]
           /\ IF ~ IsInitRequest(message)
              THEN /\ skipped' = [skipped EXCEPT ![n] = @ \cup {message}]
                   /\ UNCHANGED <<responses, emitted, id, main>>
              ELSE IF reply_for(message, EmptyPayload).ok
              THEN /\ Reply(n, message, EmptyPayload)
                   /\ id' = [id EXCEPT ![n] = <<InitNodeId(message)>>]
                   /\ main' = [main EXCEPT ![n] = "listen"]
                   /\ UNCHANGED skipped
              ELSE /\ main' = [main EXCEPT ![n] = "panicked"]
                   /\ UNCHANGED <<responses, emitted, id, skipped>>
    /\ UNCHANGED <<latest_message_id, waiting_for, messages, broadcast_to, handlers,
                   fanouts, received, returned, ignored, envVars, topoVars,
                   uidVars, gcVars, kafkaVars, stdin, reader>>

\* Node::initialize, one iteration on the closed channel: recv returns None
\* and the loop continues
InitializeSpin(n) ==
    /\ main[n] = "initialize"
    /\ ChannelClosed(n)
    /\ UNCHANGED vars

\* Node::listen, one iteration
MainListen(n) == main[n] = "listen" /\ Listen(n)

\* Node::listen returns when recv returns None; main goes on to handle.await
ListenEnd(n) ==
    /\ main[n] = "listen"
    /\ ChannelClosed(n)
    /\ main' = [main EXCEPT ![n] = "join"]
    /\ UNCHANGED <<nodeVars, envVars, topoVars, uidVars, gcVars, kafkaVars,
                   id, stdin, reader, skipped>>

\* read_from_stdin, one line
MainRead(n) == stdin[n] = "open" /\ reader[n] = "running" /\ ReadFromStdin(n)

\* read_from_stdin at the end of the stream: the task ends and drops tx
ReaderEnd(n) ==
    /\ stdin[n] = "closed"
    /\ reader[n] = "running"
    /\ reader' = [reader EXCEPT ![n] = "ended"]
    /\ UNCHANGED <<nodeVars, envVars, topoVars, uidVars, gcVars, kafkaVars,
                   id, main, stdin, skipped>>

\* the harness closes the input stream of the process
StdinClose(n) ==
    /\ stdin[n] = "open"
    /\ stdin' = [stdin EXCEPT ![n] = "closed"]
    /\ UNCHANGED <<nodeVars, envVars, topoVars, uidVars, gcVars, kafkaVars,
                   id, main, reader, skipped>>

\* the lines of the harness numbered k: init requests (one of them with a
\* node_id that is no node id), an echo request and a response
HarnessLines(n, k) ==
    {[src |-> Client, dest |-> NodePeer(n), body |-> body] : body \in
        {[type |-> "init", msg_id |-> k, node_id |-> NodePeer(i)] : i \in InitIds}
        \cup {[type |-> "init", msg_id |-> k, node_id |-> Client],
              [type |-> "echo", msg_id |-> k, echo |-> "hi"],
              [type |-> "echo_ok", in_reply_to |-> k, echo |-> "hi"]}}

\* the harness writes a line to the process
HarnessSend(n) ==
    /\ budget.ops > 0
    /\ stdin[n] = "open"
    /\ budget' = [budget EXCEPT !.ops = @ - 1]
    /\ client_msg_id' = client_msg_id + 1
    /\ \E message \in HarnessLines(n, client_msg_id) : network' = network \cup {message}
    /\ UNCHANGED <<nodeVars, client_inbox, topoVars, appVars>>

\* SpecMain: one process from its start
InitMainProcess ==
    /\ InitNodes
    /\ network = {} /\ client_inbox = {} /\ client_msg_id = 0
    /\ budget = [ops |-> MaxLines, peer_ops |-> 0, timeouts |-> 0, faults |-> 0]
    /\ InitTopoIdle
    /\ InitUniqueIdsIdle /\ InitGCounterIdle /\ InitKafkaIdle
    /\ InitMain

\* the steps of the process that are not a turn of a loop on a closed channel
Progress(n) ==
    \/ MainRead(n)
    \/ ReaderEnd(n)
    \/ Initialize(n)
    \/ MainListen(n)
    \/ ListenEnd(n)
    \/ Echo(n)
    \/ WriteToStdout(n)

NextMain ==
    \/ HarnessSend(Self)
    \/ StdinClose(Self)
    \/ Progress(Self)
    \/ InitializeSpin(Self)

SpecMain == InitMainProcess /\ [][NextMain]_vars

\* the reply Node::initialize sends for the init request
InitOk(message) ==
    [src |-> message.dest, dest |-> message.src,
     body |-> [type |-> "init_ok", in_reply_to |-> message.body.msg_id]]

\* the message was dropped: no handler has or had it, the dispatch loop never
\* looked for its slot, and nothing answers it
Discarded(n, m) ==
    /\ m \notin received[n]
    /\ m \notin ignored[n]
    /\ \A h \in handlers[n] : h.msg # m
    /\ \A r \in BagToSet(emitted[n]) :
           "msg_id" \in DOMAIN m.body => r.body.in_reply_to # m.body.msg_id

SendersAlive(n) ==
    \/ main[n] \in {"initialize", "listen", "join"}
    \/ handlers[n] # {}
    \/ fanouts[n] # {}

\* write_to_stdout ends: responses_rx.recv() returns None, which it does on an
\* empty channel all of whose senders are dropped
WriterEnded(n) == responses[n] = <<>> /\ ~ SendersAlive(n)

\* main returns: handle.await has returned
Exited(n) == main[n] = "join" /\ WriterEnded(n)

\* C18: once standard input is closed, before or after init, the reader, the
\* initialization or dispatch loop and the writer end and the process exits:
\* when nothing is left to do but to wait or to spin, the process has exited.
C18_ExitsOnClose ==
    \A n \in Nodes :
        (stdin[n] = "closed" /\ ~ ENABLED Progress(n)) =>
            /\ reader[n] = "ended"
            /\ Exited(n)

(***************************************************************************)
(* Node::reply called with any request and any payload.                    *)
(***************************************************************************)

\* calls of Node::reply
MaxReplies == 2

\* the messages reply is called with: a request, and messages that lack
\* msg_id or type or have a type that is no string
ReplyRequests ==
    {[src |-> Client, dest |-> NodePeer(Self), body |-> body] : body \in
        {[type |-> "echo", msg_id |-> 1, echo |-> "hi"],
         [type |-> "echo", echo |-> "hi"],
         [msg_id |-> 1, echo |-> "hi"],
         [type |-> "5", msg_id |-> 1],
         [type |-> "null", msg_id |-> 1],
         [type |-> "echo_ok", in_reply_to |-> 1, echo |-> "hi"]}}

\* the payloads reply is called with: objects, a number and null
ReplyPayloads == {EmptyPayload, [echo |-> "hi"], JsonNumber(5), JsonNull}

\* Node::reply: the envelope is built and put on the outbound channel, or the
\* error of reply_for is returned; what it returned is noted
ReplyCall(n) ==
    /\ budget.ops > 0
    /\ budget' = [budget EXCEPT !.ops = @ - 1]
    /\ \E request \in ReplyRequests : \E payload \in ReplyPayloads :
           /\ IF reply_for(request, payload).ok
              THEN Reply(n, request, payload)
              ELSE UNCHANGED <<responses, emitted>>
           /\ returned' = [returned EXCEPT ![n] = @ \cup
                  {[call |-> budget.ops, request |-> request, payload |-> payload,
                    ok |-> reply_for(request, payload).ok]}]
    /\ UNCHANGED <<latest_message_id, waiting_for, requests, messages, broadcast_to,
                   handlers, fanouts, received, ignored, network, client_inbox,
                   client_msg_id, topoVars, appVars>>

\* SpecReply: calls of reply on one node, and the writer
InitReply ==
    /\ InitNodes
    /\ network = {} /\ client_inbox = {} /\ client_msg_id = 0
    /\ budget = [ops |-> MaxReplies, peer_ops |-> 0, timeouts |-> 0, faults |-> 0]
    /\ InitTopoIdle
    /\ InitAppIdle

NextReply == ReplyCall(Self) \/ WriteToStdout(Self)

SpecReply == InitReply /\ [][NextReply]_vars

\* the call of reply made in this step, if one was made
NewCalls(n) == returned'[n] \ returned[n]

\* the request or the payload is one reply cannot answer with
Malformed(request, payload) ==
    \/ "msg_id" \notin DOMAIN request.body
    \/ "type" \notin DOMAIN request.body
    \/ request.body.type \in {"5", "null"}
    \/ \E v \in {JsonNumber(5), JsonNull} : payload = v

\* C19: reply fails, enqueues nothing and changes no state of the runtime when
\* the request has no msg_id, when its type is missing or no string, or when
\* the payload is no object; in every other case it enqueues exactly one
\* reply envelope.
C19_ReplyOrNothing ==
    [][\A n \in Nodes : \A c \in NewCalls(n) :
          IF Malformed(c.request, c.payload)
          THEN /\ ~ c.ok
               /\ UNCHANGED <<latest_message_id, waiting_for, responses, requests,
                              handlers, fanouts, network, client_inbox>>
          ELSE /\ c.ok
               /\ Len(responses'[n]) = Len(responses[n]) + 1
               /\ SubSeq(responses'[n], 1, Len(responses[n])) = responses[n]
               /\ LET r == responses'[n][Len(responses'[n])]
                  IN  /\ r.src = c.request.dest /\ r.dest = c.request.src
                      /\ r.body.in_reply_to = c.request.body.msg_id
               /\ UNCHANGED <<latest_message_id, waiting_for, requests,
                              handlers, fanouts, network, client_inbox>>]_vars

\* a call that failed on a payload that is no object, after one that enqueued
C19_Witness ==
    \E c1, c2 \in returned[Self] :
        /\ c1.ok /\ ~ c2.ok
        /\ c1.call > c2.call
        /\ "msg_id" \in DOMAIN c2.request.body /\ "type" \in DOMAIN c2.request.body
        /\ c2.request.body.type = "echo"
        /\ responses[Self] # <<>>

\* the sends of node n that return in this step, each with what it returns
Returning(n) ==
    {<<f, e>> \in fanouts[n] \X (returned'[n] \ returned[n]) :
        /\ f.pc = "await" /\ f.rx # <<>>
        /\ e.task = TaskId(f) /\ e.msg_id = f.msg_id}

\* the body is an error body of the protocol: it has a code and a text
IsErrorBody(body) == {"code", "text"} \subseteq DOMAIN body

\* C20: a send whose response is an error body {code, text} returns the error,
\* whatever else the body would decode as; a send whose response is no error
\* body and decodes as the expected payload returns the payload.
C20_SendClassifies ==
    [][\A n \in Nodes : \A r \in Returning(n) :
          r[2].ok = ~ IsErrorBody(r[1].rx[1])]_vars

\* the send of task f waits for a response: its request was enqueued and it
\* has neither been answered nor been cancelled
Unanswered(f) == InFlight(f) /\ f.rx = <<>>

\* C21: whenever the request of a send has been enqueued and the send has been
\* neither answered nor cancelled, waiting_for holds the slot for its msg_id,
\* so no response can reach the dispatch loop before its slot exists
C21_SlotBeforeEnqueue ==
    \A n \in Nodes : \A f \in fanouts[n] :
        Unanswered(f) => f.msg_id \in DOMAIN waiting_for[n]

\* the response the dispatch loop of node n takes from its channel in this step
Dispatched(n) ==
    IF requests[n] # <<>> /\ requests'[n] = Tail(requests[n])
          /\ IsResponse(Head(requests[n]))
    THEN {Head(requests[n])} ELSE {}

\* the tasks of node n that are handed a response in this step
Handed(n, body) ==
    {f \in fanouts[n] : f.rx = <<>> /\
        \E g \in fanouts'[n] : TaskId(g) = TaskId(f) /\ g.rx = <<body>>}

\* C22: a response is never passed to the workload handler and puts nothing on
\* the outbound queue; when a slot is registered for its in_reply_to the slot
\* is removed and the response is handed to the waiter of that slot, once; when
\* none is registered the response is dropped and waiting_for does not change
C22_ResponseToWaiter ==
    [][\A n \in Nodes : \A r \in Dispatched(n) :
          LET k == r.body.in_reply_to
          IN  /\ handlers'[n] = handlers[n]
              /\ received'[n] = received[n]
              /\ responses'[n] = responses[n]
              /\ IF k \in DOMAIN waiting_for[n]
                 THEN /\ k \notin DOMAIN waiting_for'[n]
                      /\ Cardinality(Handed(n, r.body)) = 1
                      /\ \A f \in Handed(n, r.body) : f.msg_id = k
                 ELSE /\ waiting_for'[n] = waiting_for[n]
                      /\ fanouts'[n] = fanouts[n]]_vars

\* the tasks of node n suspended on the slot registered for msg_id k
AwaitingSlot(n, k) ==
    {f \in fanouts[n] : f.pc = "await" /\ f.rx = <<>> /\ f.msg_id = k
                          /\ k \in DOMAIN waiting_for[n] /\ waiting_for[n][k] = Slot(f)}

OutboundRequests(n) ==
    {q \in Range(responses[n]) \cup network : q.src = NodePeer(n) /\ IsBroadcast(q)}

\* the msg_ids the sends of node n have taken so far
MsgIdsTaken(n) ==
    {f.msg_id : f \in {f \in fanouts[n] : f.msg_id # -1}}
        \cup DOMAIN waiting_for[n]
        \cup {s.msg_id : s \in returned[n]}
        \cup {q.body.msg_id : q \in OutboundRequests(n)}

\* C24: the msg_id counter of a node starts at 0 and every send call adds
\* exactly 1 to it and takes the value it found, so under any interleaving of
\* sends (concurrent fan-out tasks, successive attempts of one task) no two
\* requests of the node carry the same msg_id
C24_MsgIdsDistinct ==
    /\ latest_message_id[Self] = 0
    /\ [](/\ \A k \in MsgIdsTaken(Self) : 0 <= k /\ k < latest_message_id[Self]
          /\ \A f, g \in fanouts[Self] :
                 (InFlight(f) /\ InFlight(g) /\ f.msg_id = g.msg_id) => f = g
          /\ \A i, j \in DOMAIN responses[Self] :
                 (/\ responses[Self][i].src = NodePeer(Self)
                  /\ IsBroadcast(responses[Self][i]) /\ IsBroadcast(responses[Self][j])
                  /\ responses[Self][i].body.msg_id = responses[Self][j].body.msg_id)
                     => i = j)
    /\ [][latest_message_id'[Self] # latest_message_id[Self] =>
             /\ latest_message_id'[Self] = latest_message_id[Self] + 1
             /\ latest_message_id[Self] \notin MsgIdsTaken(Self)
             /\ Len(responses'[Self]) = Len(responses[Self]) + 1
             /\ responses'[Self][Len(responses'[Self])].body.msg_id
                    = latest_message_id[Self]]_vars

\* two fan-out tasks are in flight at once, one of them in a later attempt
C24_Witness ==
    \E f, g \in fanouts[Self] :
        /\ TaskId(f) # TaskId(g)
        /\ InFlight(f) /\ InFlight(g)
        /\ f.msg_id # g.msg_id
        /\ f.timeout_ms > InitialTimeoutMs

\* node n has put broadcast_ok on its outbound queue for the request req
AckEmitted(n, req) ==
    \E r \in Replies(n) :
        r.dest = req[1] /\ r.body.in_reply_to = req[2] /\ r.body.type = "broadcast_ok"

\* the fan-out tasks of node n that put their request on the outbound queue in
\* this step
Sending(n) ==
    {f \in fanouts[n] : f.pc = "send" /\
        \E g \in fanouts'[n] : TaskId(g) = TaskId(f) /\ g.pc = "register"}

\* C25: broadcast_ok for a broadcast request with a new value is on the
\* outbound queue before any fan-out task of that request exists, so before
\* any broadcast of the value to a peer is enqueued; the reply waits for no peer
C25_ReplyBeforeFanout ==
    /\ [](\A n \in Nodes : \A f \in fanouts[n] : AckEmitted(n, f.req))
    /\ [][\A n \in Nodes : \A f \in Sending(n) : AckEmitted(n, f.req)]_vars

\* the client has broadcast_ok while a node has not seen the value and no
\* request for it has left the node that answered
C25_Witness ==
    /\ \E r \in client_inbox : r.body.type = "broadcast_ok"
    /\ \E n \in Nodes : messages[n] = {} /\ TopologyAcked(n)
    /\ \E n \in Nodes : \E f \in fanouts[n] : f.pc = "send" /\ f.msg_id = -1

\* the fan-out tasks of node n that end in this step
Ended(n) == {f \in fanouts[n] : ~ \E g \in fanouts'[n] : TaskId(g) = TaskId(f)}

\* the fan-out tasks of node n whose attempt fails in this step: the window
\* ends, or the send returns with an error body as its response
Failing(n) ==
    {f \in fanouts[n] : f.pc = "await" /\ f \notin fanouts'[n] /\
        IF f.rx = <<>> THEN budget'.timeouts < budget.timeouts
        ELSE f.rx[1].type = "error"}

IsLate(n, r) ==
    /\ r.body.in_reply_to < latest_message_id[n]
    /\ ~ \E f \in fanouts[n] : InFlight(f) /\ f.msg_id = r.body.in_reply_to

\* C27: a response to a send that is no longer in flight (its caller was
\* cancelled by the timeout) is dropped by the dispatch loop, which goes on: no
\* outbound message, no handler, and no task is handed it, neither a later
\* attempt nor another send; a timeout withdraws nothing that was sent
C27_LateReplyDropped ==
    /\ [][\A n \in Nodes : \A r \in Dispatched(n) :
             IsLate(n, r) =>
                 /\ responses'[n] = responses[n]
                 /\ handlers'[n] = handlers[n]
                 /\ fanouts'[n] = fanouts[n]
                 /\ messages'[n] = messages[n]
                 /\ r \in ignored'[n]]_vars
    /\ [][\A n \in Nodes : \A f \in fanouts[n] : \A g \in fanouts'[n] :
             (TaskId(g) = TaskId(f) /\ f.rx = <<>> /\ g.rx # <<>>) =>
                 g.rx[1].in_reply_to = f.msg_id]_vars
    /\ [][budget'.timeouts < budget.timeouts =>
             /\ network' = network
             /\ responses' = responses
             /\ requests' = requests]_vars

\* the answer to the first attempt came after its timeout and was dropped,
\* while the second attempt waits on its own slot
C27_Witness ==
    \E r \in ignored[Self] : \E f \in fanouts[Self] :
        /\ r.body.in_reply_to \notin DOMAIN waiting_for[Self]
        /\ r.body.in_reply_to < f.msg_id
        /\ f.timeout_ms > InitialTimeoutMs
        /\ f.pc = "await" /\ f.rx = <<>>
        /\ f.msg_id \in DOMAIN waiting_for[Self]

(***************************************************************************)
(* The fan-out retry loop with several failed attempts.                    *)
(***************************************************************************)

\* timeouts and faulty answers a fan-out task meets
MaxRetryTimeouts == 2
MaxRetryFaults == 1

\* SpecRetry: the program on one node, one broadcast of the client, and a
\* peer that answers late, wrongly or not at all
InitRetry == InitNodes /\ InitEnv({Self}, NodeOverlays, MaxBroadcasts, 0, MaxRetryTimeouts,
                                   MaxRetryFaults)
                 /\ InitTopoIdle /\ InitAppIdle

NextRetry ==
    \/ NodeStep(Self)
    \/ Timeout(Self)
    \/ ClientBroadcast(Self)
    \/ \E p \in Nodes \ {Self} : PeerAnswer(p) \/ PeerFault(p)

SpecRetry == InitRetry /\ [][NextRetry]_vars

\* the windows of the first four attempts, in milliseconds
BackoffWindows == <<100, 150, 225, 337>>

\* w2 is w1 multiplied by 1.5 and truncated to an integer
IsNextWindow(w1, w2) == 2 * w2 <= 3 * w1 /\ 3 * w1 < 2 * w2 + 2

\* C28: the window of a fan-out task starts at 100 ms, and after every failed
\* attempt (a timeout or an error reply) the next window is the previous one
\* multiplied by 1.5 and truncated (100, 150, 225, 337, ...); apart from that
\* the window of a task never changes
C28_Backoff ==
    /\ [](\A n \in Nodes : \A f \in fanouts[n] :
             /\ f.timeout_ms >= BackoffWindows[1]
             /\ f.timeout_ms <= BackoffWindows[4] => f.timeout_ms \in Range(BackoffWindows))
    /\ [][\A n \in Nodes : \A g \in fanouts'[n] :
             IF \E f \in fanouts[n] : TaskId(f) = TaskId(g)
             THEN \A f \in fanouts[n] : TaskId(f) = TaskId(g) =>
                      IF f \in Failing(n) THEN IsNextWindow(f.timeout_ms, g.timeout_ms)
                      ELSE g.timeout_ms = f.timeout_ms
             ELSE g.timeout_ms = BackoffWindows[1]]_vars

\* a task in its fourth attempt, after two timeouts and an error reply
C28_Witness ==
    \E f \in fanouts[Self] :
        /\ f.timeout_ms = BackoffWindows[4]
        /\ budget.timeouts = 0 /\ budget.faults = 0
        /\ f.pc = "await"

(***************************************************************************)
(* The node when the harness installs a topology more than once: after the *)
(* first topology request the client may send further ones, with other     *)
(* overlays, between its broadcasts.                                       *)
(***************************************************************************)

\* requests of the client after the first topology request
MaxClientOps == 2

\* the overlays of the later topology requests: the line Self - 3 - 2 and the
\* star around Self
Retopologies == {{{Self, 3}, {3, 2}}, {{Self, 2}, {Self, 3}}}

\* the client sends a further topology request to node n
ClientTopology(n) ==
    \E E \in Retopologies :
        ClientRequest(n, [type |-> "topology",
                          topology |-> OverlayMap(Cardinality(Nodes), E, TRUE)])

InitRetopology ==
    InitNodes /\ InitEnv({Self}, NodeOverlays, MaxClientOps, 0, 0, 0)
        /\ InitTopoIdle /\ InitAppIdle

NextRetopology ==
    \/ NodeStep(Self)
    \/ ClientTopology(Self)
    \/ ClientBroadcast(Self)
    \/ \E p \in Nodes \ {Self} : PeerAnswer(p)

SpecRetopology == InitRetopology /\ [][NextRetopology]_vars

\* the topology requests node n has answered
TopologiesHandled(n) ==
    {q \in received[n] :
        /\ IsTopologyRequest(q)
        /\ \E r \in Replies(n) : r.dest = q.src /\ r.body.in_reply_to = q.body.msg_id}

\* the one it answered last: the client numbers its requests in order and sends
\* one only when the one before is answered
LastTopology(n) ==
    CHOOSE q \in TopologiesHandled(n) :
        \A o \in TopologiesHandled(n) : o.body.msg_id <= q.body.msg_id

\* the lists Topology(T).next(n) may be, over the orders in which the map of
\* the request is iterated
NextLists(T, n) == {next(From(T), keys, n) : keys \in KeyOrders(DOMAIN T)}

\* the fan-out tasks node n spawns in this step
Spawned(n) == {f \in fanouts'[n] : \A g \in fanouts[n] : TaskId(g) # TaskId(f)}

\* C29: once a topology request is handled, broadcast_to is a list
\* Topology(T).next(self.id) of the map T of the request handled last, whatever
\* it was before; the step that answers topology_ok leaves seen and the fan-out
\* tasks as they are and its reply carries nothing but in_reply_to and type; and
\* the tasks a later broadcast spawns go to the nodes of that list, minus the
\* sender, and to no other
C29_TopologyReplaces ==
    /\ [](\A n \in Nodes : TopologiesHandled(n) # {} =>
            broadcast_to[n] \in NextLists(LastTopology(n).body.topology, n))
    /\ [][\A n \in Nodes :
            /\ \A r \in NewReplies(n) : r.body.type = "topology_ok" =>
                  /\ messages'[n] = messages[n]
                  /\ fanouts'[n] = fanouts[n]
                  /\ DOMAIN r.body = {"in_reply_to", "type"}
                  /\ \E q \in received[n] :
                        /\ IsTopologyRequest(q)
                        /\ q.body.msg_id = r.body.in_reply_to
                        /\ broadcast_to'[n] \in NextLists(q.body.topology, n)
            /\ Spawned(n) # {} =>
                  \E l \in NextLists(LastTopology(n).body.topology, n) :
                      \E source \in {f.req[1] : f \in Spawned(n)} :
                          {f.node_id : f \in Spawned(n)} = Range(Recipients(l, source))]_vars

\* the node answered a second topology request whose list has no node of the
\* first one, and a broadcast handled after it fans out to the new neighbour
C29_Witness ==
    /\ Cardinality(TopologiesHandled(Self)) >= 2
    /\ broadcast_to[Self] = <<3>>
    /\ \E f \in fanouts[Self] : f.node_id = 3 /\ f.req[2] > LastTopology(Self).body.msg_id
    /\ messages[Self] # {}

\* the values of the broadcast requests node n has acknowledged
Acked(n) ==
    {q.body.message : q \in {q \in received[n] :
        /\ IsBroadcastRequest(q)
        /\ \E r \in Replies(n) : /\ r.body.type = "broadcast_ok"
                                 /\ r.dest = q.src
                                 /\ r.body.in_reply_to = q.body.msg_id}}

\* C30: a value whose broadcast_ok is on the outbound queue is in seen; seen
\* never loses a value; so a read_ok put on the queue carries every value
\* acknowledged before that step (a read request received after the
\* broadcast_ok is answered after it); and the step that answers a read leaves
\* seen and broadcast_to as they were
C30_ReadYourWrites ==
    /\ [](\A n \in Nodes : Acked(n) \subseteq messages[n])
    /\ [][\A n \in Nodes :
            /\ messages[n] \subseteq messages'[n]
            /\ \A r \in NewReplies(n) : r.body.type = "read_ok" =>
                  /\ Acked(n) \subseteq r.body.messages
                  /\ messages'[n] = messages[n]
                  /\ broadcast_to'[n] = broadcast_to[n]]_vars

\* the node acknowledged a broadcast and then answered a read with its value
C30_Witness ==
    \E r \in Replies(Self) :
        /\ r.body.type = "read_ok"
        /\ r.body.messages # {}
        /\ r.body.messages \subseteq Acked(Self)

(***************************************************************************)
(* Properties of the hops the topology engine selects.                     *)
(***************************************************************************)

\* the cycles that survive the pruning in run r (every key order records the
\* same ones, the traversal starting at the smallest key)
Surviving(r) ==
    PrunedCycles(From(topology[r]), CHOOSE keys \in KeyOrders(DOMAIN topology[r]) : TRUE)

\* the vertex after n on the cycle c, going round; none on a cycle of one vertex
Following(c, n) ==
    IF Len(c) = 1 THEN <<>> ELSE <<c[(Position(c, n) % Len(c)) + 1]>>

\* the vertices after n on the cycles, from the i-th cycle on, that contain n
RECURSIVE FollowingFrom(_, _, _)
FollowingFrom(cycles, i, n) ==
    IF i > Len(cycles) THEN <<>>
    ELSE (IF SeqContains(cycles[i], n) THEN Following(cycles[i], n) ELSE <<>>)
             \o FollowingFrom(cycles, i + 1, n)

\* s without the elements that occurred before
FirstOccurrences(s) ==
    LET keep == {i \in 1..Len(s) : \A j \in 1..(i - 1) : s[j] # s[i]}
        rank(i) == Cardinality({j \in keep : j <= i})
    IN  [k \in 1..Cardinality(keep) |-> s[CHOOSE i \in keep : rank(i) = k]]

\* C31: when a cycle survives the pruning, next(n) is, over the surviving
\* cycles that contain n in their order, the vertex that follows n on the cycle
\* (the first one after the last, none on a cycle of one vertex, the other one
\* on a cycle of two), each vertex kept where it occurs first; on the 2x3 grid
\* this is next(1)=[4], next(2)=[1], next(3)=[2], next(4)=[5], next(5)=[6],
\* next(6)=[3]
C31_NextHops ==
    \A r \in Runs : Ran(r) =>
        /\ Surviving(r) # <<>> =>
              \A n \in DOMAIN next_of[r] :
                  next_of[r][n] = FirstOccurrences(FollowingFrom(Surviving(r), 1, n))
        /\ From(topology[r]) = three_neighbors =>
              next_of[r] = <<(<<4>>), (<<1>>), (<<2>>), (<<5>>), (<<6>>), (<<3>>)>>

\* both runs done on the grid of the tests, the second with its lists reversed;
\* a cycle survives the pruning
C31_Witness ==
    /\ Ran(1) /\ Ran(2)
    /\ From(topology[2]) = three_neighbors /\ topology[2] # three_neighbors
    /\ Surviving(2) # <<>>

\* the cycles the traversal of run r records, in the order of recording
Recorded(r) ==
    FindCycles(From(topology[r]), CHOOSE keys \in KeyOrders(DOMAIN topology[r]) : TRUE)

\* the vertex set of cycle c is a subset of that of the different cycle d
ContainedIn(c, d) == c # d /\ Range(c) \subseteq Range(d)

\* C32: after the pruning, no recorded cycle whose vertex set is a subset of
\* the vertex set of another recorded cycle is left, so no surviving cycle is
\* contained in a different one; pruning the same cycles recorded in the
\* opposite order leaves the same cycles
C32_Pruned ==
    \A r \in Runs : Ran(r) =>
        LET rec == Recorded(r)
            sur == Surviving(r)
        IN  /\ \A i, j \in 1..Len(rec) :
                   ContainedIn(rec[i], rec[j]) => ~SeqContains(sur, rec[i])
            /\ \A i, j \in 1..Len(sur) : ~ContainedIn(sur[i], sur[j])
            /\ Range(RemoveContained(Reversed(rec), 1, Reversed(rec))) = Range(sur)

\* a run in which the pruning removed cycles and left two
C32_Witness ==
    /\ Ran(1)
    /\ \E i, j \in 1..Len(Recorded(1)) : ContainedIn(Recorded(1)[i], Recorded(1)[j])
    /\ Cardinality(Range(Surviving(1))) >= 2
    /\ Len(Surviving(1)) < Len(Recorded(1))

\* the list s holds no element twice
NoDuplicate(s) == \A i, j \in 1..Len(s) : s[i] = s[j] => i = j

\* C33: every element of next(n) is in the list the map gives for n (no hop
\* goes along a pair of nodes that is not an edge of the map), and when a cycle
\* survives the pruning next(n) holds neither n nor an element twice
C33_HopsAreEdges ==
    \A r \in Runs : Ran(r) =>
        \A n \in DOMAIN next_of[r] :
            /\ Range(next_of[r][n]) \subseteq Range(get_neighbors(topology[r], n))
            /\ Surviving(r) # <<>> =>
                  ~SeqContains(next_of[r][n], n) /\ NoDuplicate(next_of[r][n])

\* a run on a map with a one-way edge and a node listed in its own list, in
\* which a cycle survives and gives that node a hop
C33_Witness ==
    /\ Ran(1) /\ Surviving(1) # <<>>
    /\ \E a \in DOMAIN topology[1] : \E b \in Range(topology[1][a]) :
           b \in DOMAIN topology[1] /\ a \notin Range(topology[1][b])
    /\ \E n \in DOMAIN topology[1] :
           n \in Range(topology[1][n]) /\ next_of[1][n] # <<>>

(***************************************************************************)
(* The log program when the client commits offsets and lists them.         *)
(***************************************************************************)

\* send requests, and commit_offsets and list_committed_offsets requests, of
\* the client
MaxCommitSends == 1
MaxCommits == 2

InitCommit ==
    /\ InitNodes
    /\ network = {} /\ client_inbox = {} /\ client_msg_id = 0
    /\ budget = [ops |-> MaxCommitSends, polls |-> MaxCommits, peer_ops |-> 0,
                 timeouts |-> 0, faults |-> 0]
    /\ InitTopoIdle
    /\ InitUniqueIdsIdle
    /\ InitGCounterIdle
    /\ InitKafka
    /\ InitMainIdle

NextCommit ==
    \/ ClientSend(Self)
    \/ ClientCommitOffsets(Self)
    \/ ClientListCommittedOffsets(Self)
    \/ ReadFromStdin(Self)
    \/ Listen(Self)
    \/ KafkaStart(Self)
    \/ KafkaReply(Self)
    \/ WriteToStdout(Self)

SpecCommit == InitCommit /\ [][NextCommit]_vars

\* the handler tasks of node n that take this step, with what they become
\* (<<>> when the task ends)
Stepping(n) ==
    {<<h, IF \E g \in handlers'[n] : g.msg = h.msg
          THEN <<CHOOSE g \in handlers'[n] : g.msg = h.msg>> ELSE <<>> >> :
        h \in {h \in handlers[n] : h \notin handlers'[n]}}

\* what list_committed_offsets has to answer for keys on the logs map
LengthsOf(map, keys) ==
    [key \in {k \in keys : k \in DOMAIN map} |-> Len(map[key])]

\* C34: a step of a commit_offsets task changes no log and its reply is
\* commit_offsets_ok; a list_committed_offsets task computes, from the logs as
\* they are when it reads them, the length of the log of every requested key
\* that exists and nothing for the other keys, and list_committed_offsets_ok
\* carries just that, so no commit_offsets handled before has a part in it
C34_CommitChangesNothing ==
    [][\A n \in Nodes : \A s \in Stepping(n) :
          LET h == s[1]
              type == h.msg.body.type
          IN  IsKafkaRequest(h.msg) =>
                /\ type = "commit_offsets" =>
                      /\ logs' = logs /\ logs_writer' = logs_writer
                      /\ s[2] # <<>> => s[2][1].payload = EmptyPayload
                      /\ \A r \in NewReplies(n) :
                             /\ r.body.type = "commit_offsets_ok"
                             /\ DOMAIN r.body = {"in_reply_to", "type"}
                /\ type = "list_committed_offsets" =>
                      /\ logs' = logs
                      /\ s[2] # <<>> =>
                            s[2][1].payload =
                                [offsets |-> LengthsOf(logs[n], h.msg.body.keys)]
                      /\ \A r \in NewReplies(n) :
                             /\ r.body.type = "list_committed_offsets_ok"
                             /\ r.body.offsets = h.payload.offsets]_vars

\* a commit_offsets that names offset 2 for a key was answered, and a later
\* list_committed_offsets was answered with the length 1 of that key's log
C34_Witness ==
    \E c \in KafkaReplies("commit_offsets"), l \in KafkaReplies("list_committed_offsets") :
        /\ c.body.in_reply_to < l.body.in_reply_to
        /\ \E key \in DOMAIN l.body.offsets \cap DOMAIN RequestOf(c).body.offsets :
               /\ RequestOf(c).body.offsets[key] = 2
               /\ l.body.offsets[key] = 1
        /\ DOMAIN l.body.offsets # RequestOf(l).body.keys

(***************************************************************************)
(* The log program under a backlog: the client sends on one key, each      *)
(* request once the one before is handled, while the writer task may lag   *)
(* behind, so that the outbound channel fills up.                          *)
(***************************************************************************)

\* send requests of the client: one more than the outbound channel holds
MaxBacklog == 101

\* the client sends on the first key once the node has nothing left to handle
ClientSendPaced(n) ==
    /\ budget.ops > 0
    /\ network = {} /\ requests[n] = <<>> /\ handlers[n] = {}
    /\ budget' = [budget EXCEPT !.ops = @ - 1]
    /\ KafkaRequestTo(n, [type |-> "send", key |-> "k1", msg |-> 10 + client_msg_id])

InitBacklog ==
    /\ InitNodes
    /\ network = {} /\ client_inbox = {} /\ client_msg_id = 0
    /\ budget = [ops |-> MaxBacklog, polls |-> 0, peer_ops |-> 0, timeouts |-> 0,
                 faults |-> 0]
    /\ InitTopoIdle
    /\ InitUniqueIdsIdle
    /\ InitGCounterIdle
    /\ InitKafka
    /\ InitMainIdle

NextBacklog ==
    \/ ClientSendPaced(Self)
    \/ ReadFromStdin(Self)
    \/ Listen(Self)
    \/ KafkaStart(Self)
    \/ KafkaReply(Self)
    \/ WriteToStdout(Self)

SpecBacklog == InitBacklog /\ [][NextBacklog]_vars

\* the tasks of node n that are suspended in the send of a message on the full
\* outbound channel
SuspendedOnEnqueue(n) ==
    {h \in handlers[n] : h.pc = "reply" /\ ~HasRoom(responses[n])}

\* C35: no task that holds the write lock of logs is suspended on the outbound
\* channel (the write locks of seen and broadcast_to are taken and released
\* within one step of the handler, so no task is ever suspended with them)
C35_NoLockAcrossAwait ==
    \A n \in Nodes : \A h \in SuspendedOnEnqueue(n) : TaskReq(h) \notin logs_writer[n]

\* the logs of node n only grow in this step: every log keeps what it holds
Appended(n) ==
    \A key \in DOMAIN logs[n] :
        /\ key \in DOMAIN logs'[n]
        /\ Len(logs'[n][key]) >= Len(logs[n][key])
        /\ SubSeq(logs'[n][key], 1, Len(logs[n][key])) = logs[n][key]

\* the pairs (offset, message) of the sends on key that were answered
Answered(key) ==
    {<<r.body.offset, RequestOf(r).body.msg>> :
        r \in {r \in KafkaReplies("send") : RequestOf(r).body.key = key}}

\* C36: no step shortens a log or changes what it holds at an offset; and a
\* poll handled after a send on key k was answered with offset o for message x,
\* asking for k from an offset <= o, is answered with a list for k that holds
\* the pair (o, x)
C36_AppendOnly ==
    [][\A n \in Nodes :
          /\ Appended(n)
          /\ \A s \in Stepping(n) :
                LET h == s[1]
                IN  (IsKafkaRequest(h.msg) /\ h.msg.body.type = "poll") =>
                      IF h.pc = "start"
                      THEN \A key \in DOMAIN h.msg.body.offsets :
                               \A pair \in Answered(key) :
                                   h.msg.body.offsets[key] <= pair[1] =>
                                       /\ s[2] # <<>>
                                       /\ key \in DOMAIN s[2][1].payload.msgs
                                       /\ SeqContains(s[2][1].payload.msgs[key], pair)
                      ELSE \A r \in NewReplies(n) : r.body.msgs = h.payload.msgs]_vars

\* the add requests node n has received, and those it has answered add_ok
AddsOf(n) == {m \in received[n] : IsAddRequest(m)}
AddsAcked(n) ==
    {m \in AddsOf(n) : \E r \in Replies(n) :
        r.body.type = "add_ok" /\ r.dest = m.src /\ r.body.in_reply_to = m.body.msg_id}

\* C37: the local delta of a node is the sum of the deltas of the adds it has
\* taken up (no update is lost), and once every add the node received is
\* answered add_ok the value under the node's key in seq-kv is that delta
C37_PublishedIsDelta ==
    \A n \in GcNodes :
        /\ delta[n] = SumOf([m \in AddsOf(n) |-> m.body.delta],
                            {m \in AddsOf(n) :
                                ~ \E h \in handlers[n] : h.msg = m /\ h.pc = "start"})
        /\ (AddsOf(n) # {} /\ AddsAcked(n) = AddsOf(n)) =>
               /\ NodeKey(n) \in DOMAIN store
               /\ store[NodeKey(n)] = delta[n]

\* the requests node n puts on its outbound channel in this step
Enqueued(n) ==
    IF Len(responses'[n]) > Len(responses[n])
    THEN {responses'[n][Len(responses'[n])]} ELSE {}

\* the kv calls of node n that hold their response and return in this step
KvReturning(n) ==
    {f \in fanouts[n] : f.pc = "await" /\ f.rx # <<>> /\ f \notin fanouts'[n]}

\* the error seq-kv answers a read of a key it does not hold with
IsKeyDoesNotExist(body) ==
    /\ body.type = "error"
    /\ "code" \in DOMAIN body
    /\ body.code = JsonNumber(20)

\* C38: a read of the key of a peer is sent to seq-kv only after the write of
\* the peer's _seq key was done there; and when the read comes back with the
\* error KeyDoesNotExist, the peer counts as 0 and the request goes on: it waits
\* for the other peers or is answered read_ok in that step
C38_MissingKeyIsZero ==
    [][\A n \in GcNodes :
          /\ \A q \in Enqueued(n) :
                (q.dest = SeqKv /\ q.body.type = "read") =>
                    \E p \in Range(node_ids) :
                        /\ p # n
                        /\ q.body.key = NodeKey(p)
                        /\ SeqKey(p) \in DOMAIN store
          /\ \A f \in KvReturning(n) :
                (f.op = "peer_read" /\ IsKeyDoesNotExist(f.rx[1])) =>
                    \/ \E h \in handlers'[n] :
                          /\ <<h.msg.src, h.msg.body.msg_id>> = f.req
                          /\ f.node_id \in DOMAIN h.payload
                          /\ h.payload[f.node_id] = 0
                    \/ \E r \in NewReplies(n) :
                          /\ r.body.type = "read_ok"
                          /\ r.dest = f.req[1] /\ r.body.in_reply_to = f.req[2]]_vars

(***************************************************************************)
(* The broadcast node under a backlog: the client sends reads, each once   *)
(* the node has handled the one before, and then one broadcast, while the  *)
(* writer task may lag behind, so that the outbound channel fills up.      *)
(***************************************************************************)

\* read requests of the client: with topology_ok they fill the outbound channel
MaxPressureReads == 99
\* timeouts of fan-out attempts under the backlog
MaxPressureTimeouts == 1

\* nothing is on its way to node n or in its hands
NodeIdle(n) == network = {} /\ requests[n] = <<>> /\ handlers[n] = {}

ClientReadPaced(n) ==
    /\ budget.ops > 0
    /\ NodeIdle(n)
    /\ budget' = [budget EXCEPT !.ops = @ - 1]
    /\ KafkaRequestTo(n, [type |-> "read"])

\* after its reads the client sends a broadcast
ClientBroadcastLast(n) ==
    /\ budget.ops = 0
    /\ budget.broadcasts > 0
    /\ NodeIdle(n)
    /\ budget' = [budget EXCEPT !.broadcasts = @ - 1]
    /\ KafkaRequestTo(n, BroadcastRequest(CHOOSE m \in Values : TRUE))

\* time::timeout fires while Node::send is suspended in responses_tx.send on
\* the full outbound channel: the send future is dropped with the request it
\* was about to enqueue, the msg_id it took stays taken, the window widens and
\* the loop sends again
TimeoutEnqueue(n) ==
    \E f \in fanouts[n] :
        /\ f.pc = "send"
        /\ ~HasRoom(responses[n])
        /\ budget.timeouts > 0
        /\ budget' = [budget EXCEPT !.timeouts = @ - 1]
        /\ latest_message_id' = [latest_message_id EXCEPT ![n] = @ + 1]
        /\ fanouts' = UpdateTask(n, f, [f EXCEPT !.timeout_ms = Backoff(f.timeout_ms)])
        /\ UNCHANGED <<waiting_for, responses, requests, messages, broadcast_to,
                       handlers, received, emitted, returned, ignored,
                       network, client_inbox, client_msg_id, topoVars, appVars>>

InitPressure ==
    /\ InitNodes
    /\ \E E \in NodeOverlays : network = {TopologyRequestTo(Self, 0, E)}
    /\ client_inbox = {}
    /\ client_msg_id = 1
    /\ budget = [ops |-> MaxPressureReads, broadcasts |-> 1, peer_ops |-> 0,
                 timeouts |-> MaxPressureTimeouts, faults |-> 0]
    /\ InitTopoIdle
    /\ InitAppIdle

NextPressure ==
    \/ NodeStep(Self)
    \/ Timeout(Self)
    \/ TimeoutEnqueue(Self)
    \/ ClientReadPaced(Self)
    \/ ClientBroadcastLast(Self)
    \/ \E p \in Nodes \ {Self} : PeerAnswer(p)

SpecPressure == InitPressure /\ [][NextPressure]_vars

\* fan-out tasks of n whose Node::send is suspended on the full outbound channel
SuspendedOnSend(n) == {f \in fanouts[n] : f.pc = "send" /\ ~HasRoom(responses[n])}

\* C39: back-pressure without loss: the outbound channel never holds more than
\* its capacity of 100 envelopes, and a task whose enqueue is suspended on the
\* full channel stays suspended with its envelope until the writer has made
\* room: no step fails it or drops the envelope it was about to enqueue
C39_BackPressureWithoutLoss ==
    /\ [](\A n \in DOMAIN responses : Len(responses[n]) <= ChannelCapacity)
    /\ [][SuspendedOnSend(Self) \subseteq fanouts'[Self]]_vars

====
